---- MODULE Spec2Model ----
(***************************************************************************)
(* A model of the teo data server: the SQL column-type mapping, the        *)
(* connection-URL normalisation, the paged batch read of the graph, and    *)
(* the Create/Update actions on the `Simple` model of the integration      *)
(* tests; find_unique and find_first, the Object life cycle, the order of  *)
(* a nested save, opposite_relation, the client outline of a model, the    *)
(* graph builder and the installation of field types; remove_scheme,       *)
(* create_object and the AppCtx singleton with its action handlers.        *)
(***************************************************************************)
EXTENDS Integers, Sequences, FiniteSets, TLC

VARIABLES
    \* to_database_type
    ft, dialect, dbResult,
    \* normalized_url
    urlText, urlDialect, urlResult, urlAgain,
    \* Graph::batch
    bRows, bFinder, bFail, bPc, bIndex, bLastFinder, bLastLen, bCalls,
    bDelivered, bResult, bPage,
    \* the action API on model Simple
    store, nextId, request, response,
    \* the rows of model Compound
    compounds,
    \* one Object and the last operation called on it
    obj, objOp,
    \* one save() with nested relation directives
    svPlan, svStack, svDone, svPersisted, svLog, svResult,
    \* Graph::find_first
    ffModel, ffFinder, ffRows, ffError, ffCalls, ffResult,
    \* Graph::opposite_relation
    orGraph, orStart, orChain, orPc, orResult,
    \* Outline::new
    olModel, olPc, olClasses,
    \* GraphBuilder and Graph::new
    gbEnums, gbModels, gbLog, gbPc, gbGraph,
    \* install_types_to_field_owner
    tyName, tyEnums, tyMongo, tyPc, tyType,
    \* remove_scheme
    rsUrl, rsPc, rsResult,
    \* Graph::batch: the number of the call, and a callback that deletes
    bRun, bMutating, bDeleted,
    \* AppCtx: CURRENT, the allocated contexts, and the calls made
    axCurrent, axHeap, axNext, axPc, axLast, axThreads

dbVars    == <<ft, dialect, dbResult>>
urlVars   == <<urlText, urlDialect, urlResult, urlAgain>>
batchVars == <<bRows, bFinder, bFail, bPc, bIndex, bLastFinder, bLastLen,
               bCalls, bDelivered, bResult, bPage>>
apiVars   == <<store, nextId, request, response>>
findVars  == <<compounds>>
objVars   == <<obj, objOp>>
saveVars  == <<svPlan, svStack, svDone, svPersisted, svLog, svResult>>
firstVars == <<ffModel, ffFinder, ffRows, ffError, ffCalls, ffResult>>
oppVars   == <<orGraph, orStart, orChain, orPc, orResult>>
olVars    == <<olModel, olPc, olClasses>>
gbVars    == <<gbEnums, gbModels, gbLog, gbPc, gbGraph>>
tyVars    == <<tyName, tyEnums, tyMongo, tyPc, tyType>>
rsVars    == <<rsUrl, rsPc, rsResult>>
bxVars    == <<bRun, bMutating, bDeleted>>
axVars    == <<axCurrent, axHeap, axNext, axPc, axLast, axThreads>>
tail1Vars == <<rsVars, bxVars, axVars>>
lateVars  == <<olVars, gbVars, tyVars, tail1Vars>>
extVars   == <<findVars, objVars, saveVars, firstVars, oppVars, lateVars>>
vars      == <<dbVars, urlVars, batchVars, apiVars, extVars>>

\* Option<T>: None is the empty sequence, Some(x) the one-element sequence.
None == <<>>
Some(x) == <<x>>
IsSome(o) == Len(o) = 1
Unwrap(o) == o[1]

(***************************************************************************)
(* connectors/sql/schema/type/field.rs                                     *)
(***************************************************************************)

\* The dialects of SQLDialect, as matched in to_database_type.
SQLDialect == {"SQLite", "MySQL", "PostgreSQL", "MSSQL"}

\* FieldType: a tag and, for Enum/Vec/HashMap/BTreeMap/Object, its payload.
ScalarTags == {"Bool", "I8", "I16", "I32", "I64", "I128",
               "U8", "U16", "U32", "U64", "U128", "F32", "F64",
               "String", "Date", "DateTime", "Decimal", "ObjectId"}
CompositeTags == {"Enum", "Vec", "HashMap", "BTreeMap", "Object"}
FieldTypePayloads == {"Sex", "Simple", "String", "I32"}
FieldType ==
    [tag : ScalarTags \cup {"Undefined"}, arg : {""}]
    \cup [tag : CompositeTags, arg : FieldTypePayloads]

\* DatabaseType values; m, d, n, c are Option fields.
DbUndefined == [kind |-> "Undefined"]
DbPanic == [kind |-> "Panic", message |-> "Unhandled."]
DbInt(kind, u) == [kind |-> kind, m |-> None, u |-> u]

default_database_type_mssql(field_type) == DbPanic

default_database_type_mysql_NoUnsigned(field_type) ==
    CASE field_type.tag = "Undefined" -> DbUndefined
      [] field_type.tag = "ObjectId"  -> DbUndefined
      [] field_type.tag = "Bool"      -> [kind |-> "Bool"]
      [] field_type.tag \in {"I8", "U8"}   -> DbInt("TinyInt", FALSE)
      [] field_type.tag \in {"I16", "U16"} -> DbInt("SmallInt", FALSE)
      [] field_type.tag \in {"I32", "U32"} -> DbInt("Int", FALSE)
      [] field_type.tag \in {"I64", "U64", "I128", "U128"} -> DbInt("BigInt", FALSE)
      [] field_type.tag = "F32"       -> [kind |-> "Real"]
      [] field_type.tag = "F64"       -> [kind |-> "Double", m |-> None, d |-> None]
      [] field_type.tag = "String"    -> [kind |-> "VarChar", m |-> 191, n |-> None, c |-> None]
      [] field_type.tag = "Date"      -> [kind |-> "Date"]
      [] field_type.tag = "DateTime"  -> [kind |-> "DateTime", fsp |-> 3]
      [] OTHER -> DbUndefined

default_database_type_mysql(field_type) ==
    CASE field_type.tag = "Undefined" -> DbUndefined
      [] field_type.tag = "ObjectId"  -> DbUndefined
      [] field_type.tag = "Bool"      -> [kind |-> "Bool"]
      [] field_type.tag = "I8"        -> DbInt("TinyInt", FALSE)
      [] field_type.tag = "I16"       -> DbInt("SmallInt", FALSE)
      [] field_type.tag = "I32"       -> DbInt("Int", FALSE)
      [] field_type.tag = "I64"       -> DbInt("BigInt", FALSE)
      [] field_type.tag = "I128"      -> DbInt("BigInt", FALSE)
      [] field_type.tag = "U8"        -> DbInt("TinyInt", TRUE)
      [] field_type.tag = "U16"       -> DbInt("SmallInt", TRUE)
      [] field_type.tag = "U32"       -> DbInt("Int", TRUE)
      [] field_type.tag = "U64"       -> DbInt("BigInt", TRUE)
      [] field_type.tag = "U128"      -> DbInt("BigInt", TRUE)
      [] field_type.tag = "F32"       -> [kind |-> "Real"]
      [] field_type.tag = "F64"       -> [kind |-> "Double", m |-> None, d |-> None]
      [] field_type.tag = "String"    -> [kind |-> "VarChar", m |-> 191, n |-> None, c |-> None]
      [] field_type.tag = "Date"      -> [kind |-> "Date"]
      [] field_type.tag = "DateTime"  -> [kind |-> "DateTime", fsp |-> 3]
      [] field_type.tag = "Enum"      -> DbUndefined
      [] field_type.tag = "Vec"       -> DbUndefined
      [] field_type.tag = "HashMap"   -> DbUndefined
      [] field_type.tag = "BTreeMap"  -> DbUndefined
      [] field_type.tag = "Object"    -> DbUndefined
      [] OTHER                        -> DbUndefined

default_database_type_postgresql(field_type) == DbPanic

default_database_type_sqlite(field_type) == DbPanic

to_database_type(field_type, d) ==
    CASE d = "SQLite"     -> default_database_type_sqlite(field_type)
      [] d = "MySQL"      -> default_database_type_mysql(field_type)
      [] d = "PostgreSQL" -> default_database_type_postgresql(field_type)
      [] d = "MSSQL"      -> default_database_type_mssql(field_type)

DbPending == [kind |-> "Pending"]

\* The values the variables of one part hold while another part runs.
IdleDb ==
    /\ ft = [tag |-> "Undefined", arg |-> ""]
    /\ dialect = "MySQL"
    /\ dbResult = DbPending

\* A caller evaluates field_type.to_database_type(dialect).
Convert ==
    /\ dbResult = DbPending
    /\ dbResult' = to_database_type(ft, dialect)
    /\ UNCHANGED <<ft, dialect, urlVars, batchVars, apiVars, extVars>>

(***************************************************************************)
(* connectors/sql/url/mod.rs                                               *)
(***************************************************************************)

\* URL texts are token sequences: <<scheme, "://", userinfo..., "@", host,
\* path>> with userinfo one of <<user>>, <<user, ":", password>>,
\* <<":", password>>; <<scheme, ":", path>> is a URL without authority, and
\* a text without scheme is no URL.
UrlSchemes == {"mysql", "postgres"}
UrlUsers == {"root", "admin"}
UrlPasswords == {"pw"}
UrlHosts == {"localhost", ""}
UrlPaths == {"/db"}
UserInfos ==
    {<<>>}
    \cup {<<u, "@">> : u \in UrlUsers}
    \cup {<<u, ":", p, "@">> : u \in UrlUsers, p \in UrlPasswords}
    \cup {<<":", p, "@">> : p \in UrlPasswords}
UrlTexts ==
    {<<s, "://">> \o ui \o <<h, p>> :
        s \in UrlSchemes, ui \in UserInfos, h \in UrlHosts, p \in UrlPaths}
    \cup {<<s, ":", p>> : s \in UrlSchemes, p \in UrlPaths}
    \cup {<<h, p>> : h \in UrlHosts, p \in UrlPaths}

UrlPanic == [kind |-> "Panic"]
UrlPending == [kind |-> "Pending"]

IndexOf(t, tok) ==
    IF \E i \in 1..Len(t) : t[i] = tok
    THEN CHOOSE i \in 1..Len(t) : t[i] = tok /\ \A j \in 1..(i - 1) : t[j] # tok
    ELSE 0

\* Url::parse: Err for a text without scheme and for credentials before an
\* empty host; otherwise the components.
Url_parse(t) ==
    IF Len(t) < 3 \/ t[2] \notin {"://", ":"} THEN [kind |-> "Err"]
    ELSE IF t[2] = "://" /\ IndexOf(t, "@") # 0 /\ t[IndexOf(t, "@") + 1] = ""
    THEN [kind |-> "Err"]
    ELSE IF t[2] = ":" THEN
        [kind |-> "Url", scheme |-> t[1], username |-> "", password |-> None,
         host |-> None, path |-> t[3]]
    ELSE
        LET at == IndexOf(t, "@")
            userinfo == IF at = 0 THEN <<>> ELSE SubSeq(t, 3, at - 1)
            colon == IndexOf(userinfo, ":")
            hostAt == IF at = 0 THEN 3 ELSE at + 1
        IN [kind |-> "Url", scheme |-> t[1],
            username |-> IF userinfo = <<>> \/ colon = 1 THEN "" ELSE userinfo[1],
            password |-> IF colon = 0 THEN None ELSE Some(userinfo[colon + 1]),
            host |-> Some(t[hostAt]),
            path |-> t[hostAt + 1]]

\* Url::set_username / Url::set_password: Err on a URL without host or with
\* an empty host.
HasNoHost(url) == url.host = None \/ url.host = Some("")

set_username(url, name) ==
    IF HasNoHost(url) THEN [kind |-> "Err"] ELSE [url EXCEPT !.username = name]

set_password(url, pw) ==
    IF HasNoHost(url) THEN [kind |-> "Err"] ELSE [url EXCEPT !.password = pw]

\* Lines 39-47: the normalisation of the parsed Url; unwrap() of an Err
\* aborts.
normalize_OverwritesPassword(d, url) ==
    IF d = "MySQL" /\ url.username = ""
    THEN LET named == set_username(url, "root")
         IN IF named.kind = "Err" THEN UrlPanic
            ELSE set_password(named, Some(""))
    ELSE url

normalize(d, url) ==
    IF d = "MySQL" /\ url.username = ""
    THEN LET named == set_username(url, "root")
         IN IF named.kind = "Err" THEN UrlPanic
            ELSE IF named.password = None
                 THEN set_password(named, Some(""))
                 ELSE named
    ELSE url

normalized_url(d, t) ==
    LET parsed == Url_parse(t)
    IN IF parsed.kind = "Err" THEN UrlPanic ELSE normalize(d, parsed)

\* A caller evaluates normalized_url(dialect, url).
NormalizeUrl ==
    /\ urlResult = UrlPending
    /\ urlResult' = normalized_url(urlDialect, urlText)
    /\ UNCHANGED <<urlText, urlDialect, urlAgain, dbVars, batchVars, apiVars,
                   extVars>>

\* The caller normalises the returned Url once more.
NormalizeUrlAgain ==
    /\ urlResult.kind = "Url"
    /\ urlAgain = UrlPending
    /\ urlAgain' = normalize(urlDialect, urlResult)
    /\ UNCHANGED <<urlText, urlDialect, urlResult, dbVars, batchVars, apiVars,
                   extVars>>

IdleUrl ==
    /\ urlText = <<>>
    /\ urlDialect = "MySQL"
    /\ urlResult = UrlPending
    /\ urlAgain = UrlPending

(***************************************************************************)
(* core/graph/mod.rs: Graph::batch                                         *)
(***************************************************************************)

batch_size == 200

\* The rows matching the finder, in the connector's order, are numbered
\* 1..n; the row counts lie around the page boundaries.
MaxPages == 2
RowCounts ==
    {n \in 0..(MaxPages * batch_size + 1) :
        \E k \in 0..MaxPages : n \in {k * batch_size - 1, k * batch_size,
                                      k * batch_size + 1}}
RowsOf(n) == [i \in 1..n |-> i]

\* The caller's finder: a where clause and optional skip and take.
CallerSkip == 7
CallerTake == 1
Finders ==
    [where : {"w"}, skip : {None, Some(CallerSkip)},
     take : {None, Some(CallerTake)}]

Min(a, b) == IF a < b THEN a ELSE b

\* Connector::find_many: the rows after the first `skip`, at most `take`.
Connector_find_many(rows, finder) ==
    LET skip == IF IsSome(finder.skip) THEN Unwrap(finder.skip) ELSE 0
        last == IF IsSome(finder.take)
                THEN Min(Len(rows), skip + Unwrap(finder.take))
                ELSE Len(rows)
    IN SubSeq(rows, skip + 1, last)

\* Lines 93-95: the finder of one page.
batch_finder_KeepsCallerSkip(finder, index) ==
    [finder EXCEPT !.skip = IF IsSome(finder.skip) THEN finder.skip
                             ELSE Some(index * batch_size),
                   !.take = Some(batch_size)]

batch_finder(finder, index) ==
    [finder EXCEPT !.skip = Some(index * batch_size),
                   !.take = Some(batch_size)]

\* The rows that match the finder now: those the callback has not deleted.
LiveRows == LET Live(r) == r \notin bDeleted IN SelectSeq(bRows, Live)

\* Line 96: one find_many call; an Err of the connector is returned at once.
BatchFindMany ==
    /\ bPc = "find_many"
    /\ bCalls' = bCalls + 1
    /\ bLastFinder' = Some(batch_finder(bFinder, bIndex))
    /\ \/ /\ bPage' = Connector_find_many(LiveRows,
                                           batch_finder(bFinder, bIndex))
          /\ bLastLen' = Some(Len(bPage'))
          /\ bPc' = "for"
          /\ UNCHANGED bResult
       \/ /\ bResult' = "Err"
          /\ bPc' = "done"
          /\ UNCHANGED <<bPage, bLastLen>>
    /\ UNCHANGED <<bRows, bFinder, bFail, bIndex, bDelivered>>
    /\ UNCHANGED <<dbVars, urlVars, apiVars, extVars>>

\* Lines 97-99: the callback is awaited on the next row of the page; its
\* Err is returned at once. The objects are fetched in mutation mode (line
\* 96): a mutating callback deletes the row it is given.
BatchCallback ==
    /\ bPc = "for"
    /\ bPage # <<>>
    /\ bDelivered' = Append(bDelivered, Head(bPage))
    /\ \/ /\ bPage' = Tail(bPage)
          /\ UNCHANGED <<bPc, bResult>>
       \/ /\ bFail
          /\ bResult' = "Err"
          /\ bPc' = "done"
          /\ UNCHANGED bPage
    /\ bDeleted' = IF bMutating THEN bDeleted \cup {Head(bPage)} ELSE bDeleted
    /\ UNCHANGED <<bRows, bFinder, bFail, bIndex, bLastFinder, bLastLen, bCalls>>
    /\ UNCHANGED <<dbVars, urlVars, apiVars, findVars, objVars, saveVars,
                   firstVars, oppVars, olVars, gbVars, tyVars, rsVars, bRun,
                   bMutating, axVars>>

last_page_OrFull(len) == len <= batch_size

\* Line 100.
last_page(len) == len < batch_size

\* Lines 100-103: after the page, return Ok or go on with the next index.
BatchCheck ==
    /\ bPc = "for"
    /\ bPage = <<>>
    /\ IF last_page(Unwrap(bLastLen))
       THEN /\ bResult' = "Ok"
            /\ bPc' = "done"
            /\ UNCHANGED bIndex
       ELSE /\ bIndex' = bIndex + 1
            /\ bPc' = "find_many"
            /\ UNCHANGED bResult
    /\ UNCHANGED <<bRows, bFinder, bFail, bLastFinder, bLastLen, bCalls,
                   bDelivered, bPage>>
    /\ UNCHANGED <<dbVars, urlVars, apiVars, extVars>>

MaxRuns == 2

\* Lines 90-91: a further call of batch on the same graph, after one that
\* returned Ok, starts with its own index = 0.
BatchAgain ==
    /\ bPc = "done"
    /\ bResult = "Ok"
    /\ bRun < MaxRuns
    /\ bRun' = bRun + 1
    /\ bPc' = "find_many"
    /\ bIndex' = 0
    /\ bLastFinder' = None
    /\ bLastLen' = None
    /\ bCalls' = 0
    /\ bDelivered' = <<>>
    /\ bResult' = "none"
    /\ bPage' = <<>>
    /\ UNCHANGED <<bRows, bFinder, bFail, bMutating, bDeleted>>
    /\ UNCHANGED <<dbVars, urlVars, apiVars, findVars, objVars, saveVars,
                   firstVars, oppVars, olVars, gbVars, tyVars, rsVars,
                   axVars>>

IdleBatchExt ==
    /\ bRun = 1
    /\ bMutating = FALSE
    /\ bDeleted = {}

IdleBatch ==
    /\ bRows = <<>>
    /\ bFinder = [where |-> "w", skip |-> None, take |-> None]
    /\ bFail = FALSE
    /\ bPc = "idle"
    /\ bIndex = 0
    /\ bLastFinder = None
    /\ bLastLen = None
    /\ bCalls = 0
    /\ bDelivered = <<>>
    /\ bResult = "none"
    /\ bPage = <<>>

(***************************************************************************)
(* core/builders.rs: FieldBuilder                                          *)
(***************************************************************************)

FieldBuilder_new(name) ==
    [name |-> name, type |-> "Undefined", availability |-> "Required",
     store |-> "Embedded", primary |-> FALSE, read_rule |-> "Read",
     write_rule |-> "Write", index |-> "NoIndex",
     query_ability |-> "Queryable", assigned_by_database |-> FALSE,
     default |-> None]

object_id(f) == [f EXCEPT !.type = "ObjectId"]
bool(f) == [f EXCEPT !.type = "Bool"]
i8(f) == [f EXCEPT !.type = "I8"]
string(f) == [f EXCEPT !.type = "String"]
enum(f, name) == [f EXCEPT !.type = "Enum"]
primary(f) == [f EXCEPT !.primary = TRUE]

internal(f) == [f EXCEPT !.write_rule = "NoWrite", !.read_rule = "NoRead"]

readonly_KeepsWrite(f) == f

readonly(f) == [f EXCEPT !.write_rule = "NoWrite"]

writeonly_KeepsRead(f) == [f EXCEPT !.query_ability = "Unqueryable"]

writeonly(f) ==
    [f EXCEPT !.read_rule = "NoRead", !.query_ability = "Unqueryable"]

unique_NoIndex(f) == f

unique(f) == [f EXCEPT !.index = "Unique"]

optional(f) == [f EXCEPT !.availability = "Optional"]

required_AsOptional(f) == [f EXCEPT !.availability = "Optional"]

required(f) == [f EXCEPT !.availability = "Required"]

calculated(f) == [f EXCEPT !.store = "Calculated", !.write_rule = "NoWrite"]
assigned_by_database(f) == [f EXCEPT !.assigned_by_database = TRUE]

default_Dropped(f, value) == f

default(f, value) == [f EXCEPT !.default = Some(value)]

(***************************************************************************)
(* tests/integration/connectors/mongodb/integration_mongodb.rs: the model  *)
(* Simple and the requests of the tests                                    *)
(***************************************************************************)

DefaultI8 == 2
ProvidedI8 == 8

FieldNames ==
    {"id", "uniqueString", "requiredString", "optionalString", "optionalEnum",
     "requiredWithDefault", "readonly", "writeonly"}

\* The fields of Simple (lines 27-50).
Simple ==
    [n \in FieldNames |->
        CASE n = "id" ->
               assigned_by_database(object_id(readonly(required(primary(
                   FieldBuilder_new("id"))))))
          [] n = "uniqueString" ->
               string(required(unique(FieldBuilder_new("uniqueString"))))
          [] n = "requiredString" ->
               string(required(FieldBuilder_new("requiredString")))
          [] n = "optionalString" ->
               string(optional(FieldBuilder_new("optionalString")))
          [] n = "optionalEnum" ->
               enum(optional(FieldBuilder_new("optionalEnum")), "Sex")
          [] n = "requiredWithDefault" ->
               default(i8(required(FieldBuilder_new("requiredWithDefault"))),
                       DefaultI8)
          [] n = "readonly" ->
               default(bool(required(readonly(FieldBuilder_new("readonly")))),
                       TRUE)
          [] n = "writeonly" ->
               default(bool(required(writeonly(FieldBuilder_new("writeonly")))),
                       FALSE)]

\* The values a request payload may carry for each key (None: key absent).
UniqueValues == {"1", "2"}
Payloads ==
    [id : {None},
     uniqueString : {None} \cup {Some(v) : v \in UniqueValues},
     requiredString : {None, Some("1")},
     optionalString : {None},
     optionalEnum : {None},
     requiredWithDefault : {None, Some(ProvidedI8)},
     readonly : {None, Some(FALSE)},
     writeonly : {None, Some(TRUE)}]

(***************************************************************************)
(* The model's key sets and the Create and Update actions                  *)
(***************************************************************************)

\* Finalize: input_keys, output_keys and query_keys of a model.
input_keys(m) == {k \in DOMAIN m : m[k].write_rule # "NoWrite"}
output_keys(m) == {k \in DOMAIN m : m[k].read_rule # "NoRead"}
query_keys(m) == {k \in DOMAIN m : m[k].query_ability = "Queryable"}

\* A field whose omission from the input is accepted.
input_omissible(fd) ==
    \/ fd.availability = "Optional"
    \/ IsSome(fd.default)
    \/ fd.store = "Calculated"
    \/ fd.assigned_by_database

SuppliedKeys(payload) == {k \in DOMAIN payload : IsSome(payload[k])}

\* Input Decoder: the keys of the payload that the model does not accept.
UnallowedKeys(m, payload) == SuppliedKeys(payload) \ input_keys(m)

\* Input Decoder: the required fields that end up without a value.
MissingRequired(m, payload) ==
    {k \in DOMAIN m : payload[k] = None /\ ~input_omissible(m[k])}

\* The values of a new object: the supplied value, else the default.
NewValues(m, payload) ==
    [k \in DOMAIN m |->
        IF IsSome(payload[k]) THEN payload[k] ELSE m[k].default]

\* The values of an updated object: the supplied value, else the old one.
UpdatedValues(m, row, payload) ==
    [k \in DOMAIN m |-> IF IsSome(payload[k]) THEN payload[k] ELSE row[k]]

\* Connector save_object: the unique fields whose value another row holds.
UniqueViolations(m, rows, values, self) ==
    {k \in DOMAIN m :
        /\ m[k].index = "Unique"
        /\ IsSome(values[k])
        /\ \E i \in 1..Len(rows) : i # self /\ rows[i][k] = values[k]}

\* Output: the non-null values of the output keys.
ToJson(m, row) ==
    [k \in {x \in output_keys(m) : IsSome(row[x])} |-> Unwrap(row[k])]

NoResponse ==
    [status |-> 0, type |-> "", message |-> "", errors |-> {}, data |-> None]
Success(data) ==
    [status |-> 200, type |-> "", message |-> "", errors |-> {},
     data |-> Some(data)]
Failure(status, type, message, errors) ==
    [status |-> status, type |-> type, message |-> message,
     errors |-> errors, data |-> None]

KeysUnallowed == Failure(400, "KeysUnallowed", "Unallowed keys detected.", {})
ValueRequired(keys) ==
    Failure(400, "ValidationError", "Value is required.",
            {<<k, "Value is required.">> : k \in keys})
UniqueDuplicated(keys) ==
    Failure(400, "ValidationError", "Input is not valid.",
            {<<k, "Unique value duplicated.">> : k \in keys})
ObjectNotFound == Failure(404, "ObjectNotFound", "Object not found.", {})

NoRequest == [action |-> "None", where |-> None, payload |-> None]

\* POST /simples/action {"action": "Create", "create": payload}
Create(payload) ==
    /\ request' = [action |-> "Create", where |-> None, payload |-> Some(payload)]
    /\ IF UnallowedKeys(Simple, payload) # {} THEN
            /\ response' = KeysUnallowed
            /\ UNCHANGED <<store, nextId>>
       ELSE IF MissingRequired(Simple, payload) # {} THEN
            /\ response' = ValueRequired(MissingRequired(Simple, payload))
            /\ UNCHANGED <<store, nextId>>
       ELSE LET values == NewValues(Simple, payload)
                dup == UniqueViolations(Simple, store, values, 0)
                row == [values EXCEPT !["id"] = Some(nextId)]
            IN IF dup # {} THEN
                    /\ response' = UniqueDuplicated(dup)
                    /\ UNCHANGED <<store, nextId>>
               ELSE /\ store' = Append(store, row)
                    /\ nextId' = nextId + 1
                    /\ response' = Success(ToJson(Simple, row))
    /\ UNCHANGED <<dbVars, urlVars, batchVars, extVars>>

\* POST /simples/action {"action": "Update", "where": {"uniqueString": w},
\* "update": payload}
Update(w, payload) ==
    /\ request' = [action |-> "Update", where |-> Some(w), payload |-> Some(payload)]
    /\ IF UnallowedKeys(Simple, payload) # {} THEN
            /\ response' = KeysUnallowed
            /\ UNCHANGED store
       ELSE IF ~\E i \in 1..Len(store) : store[i]["uniqueString"] = Some(w) THEN
            /\ response' = ObjectNotFound
            /\ UNCHANGED store
       ELSE LET i == CHOOSE j \in 1..Len(store) : store[j]["uniqueString"] = Some(w)
                values == UpdatedValues(Simple, store[i], payload)
                dup == UniqueViolations(Simple, store, values, i)
            IN IF dup # {} THEN
                    /\ response' = UniqueDuplicated(dup)
                    /\ UNCHANGED store
               ELSE /\ store' = [store EXCEPT ![i] = values]
                    /\ response' = Success(ToJson(Simple, values))
    /\ UNCHANGED nextId
    /\ UNCHANGED <<dbVars, urlVars, batchVars, extVars>>

CreateRequest == \E payload \in Payloads : Create(payload)
UpdateRequest == \E w \in UniqueValues, payload \in Payloads : Update(w, payload)

IdleApi ==
    /\ store = <<>>
    /\ nextId = 1
    /\ request = NoRequest
    /\ response = NoResponse

(***************************************************************************)
(* gen/internal/client/outline/outline.rs: the classes of a model without  *)
(* properties and relations                                                *)
(***************************************************************************)

\* Lines 46-84: the fields of the DataOutput class.
DataOutputFields(m) == {k \in output_keys(m) : k \in DOMAIN m}

\* Lines 92-99: the fields of the Select class.
SelectFields(m) == {k \in output_keys(m) : k \in DOMAIN m}



(***************************************************************************)
(* The model Compound of the integration tests and the FindUnique action   *)
(***************************************************************************)

CompoundFieldNames == {"id", "one", "two", "three"}

\* The fields of Compound (lines 52-64).
Compound ==
    [n \in CompoundFieldNames |->
        CASE n = "id" ->
               assigned_by_database(object_id(readonly(required(primary(
                   FieldBuilder_new("id"))))))
          [] n = "one" -> string(required(FieldBuilder_new("one")))
          [] n = "two" -> string(required(FieldBuilder_new("two")))
          [] n = "three" -> string(required(FieldBuilder_new("three")))]

\* m.unique(vec!["one", "two"]) (line 65); Simple declares no compound index.
CompoundUnique == {{"one", "two"}}
SimpleUnique == {}

ModelNames == {"Simple", "Compound"}

\* Graph::model: the model registered under a name.
Graph_model(name) ==
    CASE name = "Simple" -> Some(Simple)
      [] name = "Compound" -> Some(Compound)
      [] OTHER -> None

\* The unique indices of a model: the primary key, every unique field and
\* every compound unique index.
unique_indices(m, compound) ==
    {{k} : k \in {x \in DOMAIN m : m[x].primary \/ m[x].index = "Unique"}}
    \cup compound

compound_of(name) == IF name = "Compound" THEN CompoundUnique ELSE SimpleUnique

FindPanic == [kind |-> "Panic"]
FindErr == [kind |-> "Err"]
FindOk(row) == [kind |-> "Ok", row |-> row]
FindNone == [kind |-> "NotFound"]

\* The rows whose values equal the values of the where clause.
Matching(rows, where) ==
    {i \in 1..Len(rows) : \A k \in DOMAIN where : rows[i][k] = Some(where[k])}

\* Connector::find_unique: the row selected by a unique filter.
Connector_find_unique(m, compound, rows, finder) ==
    IF DOMAIN finder \notin unique_indices(m, compound) THEN FindErr
    ELSE IF Matching(rows, finder) = {} THEN FindNone
    ELSE FindOk(rows[CHOOSE i \in Matching(rows, finder) :
                        \A j \in Matching(rows, finder) : i <= j])

Graph_find_unique_FirstRow(name, rows, finder) ==
    IF Graph_model(name) = None THEN FindPanic
    ELSE IF rows = <<>> THEN FindNone ELSE FindOk(rows[1])

\* Graph::find_unique (lines 59-62): model(name).unwrap(), then the
\* connector's find_unique with the caller's finder.
Graph_find_unique(name, rows, finder) ==
    IF Graph_model(name) = None THEN FindPanic
    ELSE Connector_find_unique(Unwrap(Graph_model(name)), compound_of(name),
                               rows, finder)

\* The payloads and where clauses of the find_unique tests.
FindSimplePayloads ==
    {p \in Payloads :
        /\ IsSome(p.uniqueString) /\ IsSome(p.requiredString)
        /\ p.requiredWithDefault = None /\ p.readonly = None
        /\ p.writeonly = None}
CompoundOnes == {"1"}
CompoundTwos == {"2", "two"}
CompoundPayloads ==
    [id : {None}, one : {Some(v) : v \in CompoundOnes},
     two : {Some(v) : v \in CompoundTwos}, three : {Some("3")}]
MaxFindId == 3
SimpleWheres ==
    [id : 1..MaxFindId] \cup [uniqueString : UniqueValues]
CompoundWheres ==
    [id : 1..MaxFindId] \cup [one : CompoundOnes \cup {"one"}, two : CompoundTwos]

\* The rows that hold the values of a compound unique index already.
CompoundViolations(compound, rows, values) ==
    {idx \in compound :
        \E i \in 1..Len(rows) : \A k \in idx : rows[i][k] = values[k]}

\* POST /compounds/action {"action": "Create", "create": payload}
CreateCompound(payload) ==
    /\ request' = [action |-> "Create", model |-> "Compound", where |-> None,
                   payload |-> Some(payload)]
    /\ IF UnallowedKeys(Compound, payload) # {} THEN
            /\ response' = KeysUnallowed
            /\ UNCHANGED <<compounds, nextId>>
       ELSE IF MissingRequired(Compound, payload) # {} THEN
            /\ response' = ValueRequired(MissingRequired(Compound, payload))
            /\ UNCHANGED <<compounds, nextId>>
       ELSE LET values == NewValues(Compound, payload)
                dup == CompoundViolations(CompoundUnique, compounds, values)
                row == [values EXCEPT !["id"] = Some(nextId)]
            IN IF dup # {} THEN
                    /\ response' = UniqueDuplicated(UNION dup)
                    /\ UNCHANGED <<compounds, nextId>>
               ELSE /\ compounds' = Append(compounds, row)
                    /\ nextId' = nextId + 1
                    /\ response' = Success(ToJson(Compound, row))
    /\ UNCHANGED <<store, dbVars, urlVars, batchVars, objVars, saveVars,
                   firstVars, oppVars, lateVars>>

RowsOfModel(name) == IF name = "Compound" THEN compounds ELSE store

\* POST /<model>/action {"action": "FindUnique", "where": w}
FindUnique(name, w) ==
    /\ request' = [action |-> "FindUnique", model |-> name, where |-> Some(w),
                   payload |-> None]
    /\ LET found == Graph_find_unique(name, RowsOfModel(name), w)
       IN response' =
            CASE found.kind = "Ok" ->
                    Success(ToJson(Unwrap(Graph_model(name)), found.row))
              [] found.kind = "NotFound" -> ObjectNotFound
              [] OTHER -> Failure(500, "InternalError", "", {})
    /\ UNCHANGED <<store, nextId, compounds, dbVars, urlVars, batchVars,
                   objVars, saveVars, firstVars, oppVars, lateVars>>

CreateSimpleRequest == \E payload \in FindSimplePayloads : Create(payload)
CreateCompoundRequest == \E payload \in CompoundPayloads : CreateCompound(payload)
FindUniqueRequest ==
    \/ \E w \in SimpleWheres : FindUnique("Simple", w)
    \/ \E w \in CompoundWheres : FindUnique("Compound", w)

(***************************************************************************)
(* The Object: its values, its modified set and its life cycle              *)
(***************************************************************************)

ObjFields == {"a", "b"}
ObjValues == {"x", "y"}
\* A value the on_set validation of a field rejects.
ObjInvalid == "bad"
ValueMaps == UNION {[ks -> ObjValues] : ks \in SUBSET ObjFields}
ObjPayloads ==
    UNION {[ks -> ObjValues \cup {ObjInvalid}] : ks \in SUBSET ObjFields}
NoValues == [k \in {} |-> "x"]

Ok(value) == [ok |-> TRUE, err |-> "", value |-> Some(value)]
Done == [ok |-> TRUE, err |-> "", value |-> None]
Err(kind) == [ok |-> FALSE, err |-> kind, value |-> None]

\* Object::new: a new object holds no values.
Object_new ==
    [previous_values |-> NoValues, current_values |-> NoValues,
     modified |-> {}, is_new |-> TRUE, is_deleted |-> FALSE]

\* The fields whose current value differs from the one last committed.
Changed(previous, current) ==
    {f \in DOMAIN current : f \notin DOMAIN previous \/ current[f] # previous[f]}

Assign(current, values) ==
    [k \in DOMAIN current \cup DOMAIN values |->
        IF k \in DOMAIN values THEN values[k] ELSE current[k]]

WithValues(o, values) ==
    [o EXCEPT !.current_values = Assign(o.current_values, values),
              !.modified = Changed(o.previous_values,
                                   Assign(o.current_values, values))]

Object_set_MarksAlways(o, f, v) ==
    IF o.is_deleted THEN [obj |-> o, result |-> Err("ObjectIsDeleted")]
    ELSE [obj |-> [o EXCEPT !.current_values = Assign(@, [k \in {f} |-> v]),
                            !.modified = @ \cup {f}],
          result |-> Done]

\* Object::set(field, value)
Object_set(o, f, v) ==
    IF o.is_deleted THEN [obj |-> o, result |-> Err("ObjectIsDeleted")]
    ELSE [obj |-> WithValues(o, [k \in {f} |-> v]), result |-> Done]

\* Object::set_json(payload): every field error is collected and nothing is
\* applied when there is one.
Object_set_json(o, payload) ==
    IF o.is_deleted THEN [obj |-> o, result |-> Err("ObjectIsDeleted")]
    ELSE IF \E k \in DOMAIN payload : payload[k] = ObjInvalid
    THEN [obj |-> o, result |-> Err("ValidationError")]
    ELSE [obj |-> WithValues(o, payload), result |-> Done]

Object_get_OfDeleted(o, f) ==
    IF f \in DOMAIN o.current_values
    THEN [obj |-> o, result |-> Ok(o.current_values[f])]
    ELSE [obj |-> o, result |-> Ok("Null")]

\* Object::get(field)
Object_get(o, f) ==
    IF o.is_deleted THEN [obj |-> o, result |-> Err("ObjectIsDeleted")]
    ELSE IF f \in DOMAIN o.current_values
    THEN [obj |-> o, result |-> Ok(o.current_values[f])]
    ELSE [obj |-> o, result |-> Ok("Null")]

\* Object::save(): a no-op on a clean persisted object; otherwise the write
\* planner runs and, when the connector accepts the row (saved), the
\* current values become the committed ones.
Object_save(o, saved) ==
    IF o.is_deleted THEN [obj |-> o, result |-> Err("ObjectIsDeleted")]
    ELSE IF ~o.is_new /\ o.modified = {} THEN [obj |-> o, result |-> Done]
    ELSE IF ~saved THEN [obj |-> o, result |-> Err("ConnectorError")]
    ELSE [obj |-> [o EXCEPT !.is_new = FALSE, !.modified = {},
                            !.previous_values = o.current_values],
          result |-> Done]

\* Object::delete(): the connector deletes the row (deleted) or fails.
Object_delete(o, deleted) ==
    IF o.is_deleted THEN [obj |-> o, result |-> Err("ObjectIsDeleted")]
    ELSE IF ~deleted THEN [obj |-> o, result |-> Err("ConnectorError")]
    ELSE [obj |-> [o EXCEPT !.is_deleted = TRUE], result |-> Done]

\* Object::to_json()
Object_to_json(o) == [obj |-> o, result |-> Ok(o.current_values)]

\* Object::is_modified()
Object_is_modified(o) ==
    IF o.is_deleted THEN [obj |-> o, result |-> Err("ObjectIsDeleted")]
    ELSE [obj |-> o, result |-> Ok(o.modified # {})]

\* Object::is_new()
Object_is_new(o) ==
    IF o.is_deleted THEN [obj |-> o, result |-> Err("ObjectIsDeleted")]
    ELSE [obj |-> o, result |-> Ok(o.is_new)]

\* Graph::new_object (lines 124-129).
Graph_new_object(model) ==
    IF Graph_model(model) = None
    THEN [ok |-> FALSE, err |-> "InvalidOperation", value |-> None]
    ELSE Ok(Object_new)

\* Graph::create_object (lines 131-135): the result of set_json is dropped.
Graph_create_object(model, initial) ==
    IF ~Graph_new_object(model).ok THEN Graph_new_object(model)
    ELSE Ok(Object_set_json(Unwrap(Graph_new_object(model).value), initial).obj)

\* One call on the object: the object after it, the call and its result.
Call(op, r) ==
    /\ obj' = r.obj
    /\ objOp' = [op |-> op, result |-> r.result]
    /\ UNCHANGED <<dbVars, urlVars, batchVars, apiVars, findVars, saveVars,
                   firstVars, oppVars, lateVars>>

Set == \E f \in ObjFields, v \in ObjValues : Call("set", Object_set(obj, f, v))
SetJson == \E p \in ObjPayloads : Call("set_json", Object_set_json(obj, p))
Get == \E f \in ObjFields : Call("get", Object_get(obj, f))
Save == \E saved \in BOOLEAN : Call("save", Object_save(obj, saved))
Delete == \E deleted \in BOOLEAN : Call("delete", Object_delete(obj, deleted))
ToJsonCall == Call("to_json", Object_to_json(obj))
IsModified == Call("is_modified", Object_is_modified(obj))
IsNew == Call("is_new", Object_is_new(obj))

\* graph.create_object(model, initial): the caller receives the result,
\* and on Ok the object inside it.
ObjModelNames == {"Simple", "Missing"}
CreateObject ==
    /\ objOp.op = "none"
    /\ \E model \in ObjModelNames, initial \in ObjPayloads :
          LET r == Graph_create_object(model, initial)
          IN /\ obj' = IF r.ok THEN Unwrap(r.value) ELSE obj
             /\ objOp' = [op |-> "create_object", result |-> r,
                          model |-> model, initial |-> initial]
    /\ UNCHANGED <<dbVars, urlVars, batchVars, apiVars, findVars, saveVars,
                   firstVars, oppVars, lateVars>>

\* The caller holds an object.
ObjCreated == objOp.op # "none" /\ (objOp.op = "create_object" => objOp.result.ok)

IdleObj ==
    /\ obj = Object_new
    /\ objOp = [op |-> "none", result |-> Done]

(***************************************************************************)
(* The write planner: one save() with nested relation directives           *)
(***************************************************************************)

\* The relation directives a plan may hold: `of` is the object whose input
\* names the relation; an owner-side relation keeps its foreign key on
\* `of`, a referenced-side relation on the target. A Create directive
\* saves the target object within this save().
Directives ==
    {[of |-> "root", name |-> "author", side |-> "owner", kind |-> "Create",
      target |-> "A"],
     [of |-> "root", name |-> "category", side |-> "owner",
      kind |-> "Connect", target |-> "X"],
     [of |-> "root", name |-> "comments", side |-> "referenced",
      kind |-> "Create", target |-> "B"],
     [of |-> "root", name |-> "tags", side |-> "referenced",
      kind |-> "Connect", target |-> "Y"],
     [of |-> "A", name |-> "company", side |-> "owner", kind |-> "Connect",
      target |-> "Z"],
     [of |-> "A", name |-> "profile", side |-> "referenced",
      kind |-> "Connect", target |-> "W"],
     [of |-> "B", name |-> "votes", side |-> "referenced",
      kind |-> "Connect", target |-> "V"]}

\* A plan holds the directives of an object only when it creates the object.
Plans ==
    {pl \in SUBSET Directives :
        \A d \in pl : d.of # "root" =>
            \E c \in pl : c.kind = "Create" /\ c.target = d.of}

Top(stack) == stack[Len(stack)]
Pop(stack) == SubSeq(stack, 1, Len(stack) - 1)
Pending(plan, done, o, side) ==
    {d \in plan : d.of = o /\ d.side = side /\ d \notin done}

ReadyToPersist_Eager(plan, done, o) == TRUE

\* Step 3 before step 5: the row is persisted once every owner-side
\* directive of the object is realized.
ReadyToPersist(plan, done, o) == Pending(plan, done, o, "owner") = {}

MayApply_Eager(persisted, d) == TRUE

\* Step 6 after step 5: a referenced-side directive is applied once the row
\* of its object is persisted.
MayApply(persisted, d) == d.of \in persisted

Event(ev, who) == [ev |-> ev, who |-> who]

SaveRest ==
    <<dbVars, urlVars, batchVars, apiVars, findVars, objVars, firstVars,
      oppVars, lateVars>>

SaveAbort ==
    /\ svResult' = "Err"
    /\ UNCHANGED <<svPlan, svStack, svDone, svPersisted, svLog>>

\* Step 3, Create / ConnectOrCreate: the target object is saved first.
SaveOwnerCreate ==
    /\ svResult = "none" /\ svStack # <<>>
    /\ Top(svStack) \notin svPersisted
    /\ \E d \in Pending(svPlan, svDone, Top(svStack), "owner") :
          /\ d.kind = "Create"
          /\ svStack' = Append(svStack, d.target)
    /\ UNCHANGED <<svPlan, svDone, svPersisted, svLog, svResult, SaveRest>>

\* Step 3, Connect: the target is looked up and its references are copied
\* into the fields of this object; the lookup may fail.
SaveOwnerConnect ==
    /\ svResult = "none" /\ svStack # <<>>
    /\ Top(svStack) \notin svPersisted
    /\ \E d \in Pending(svPlan, svDone, Top(svStack), "owner") :
          /\ d.kind = "Connect"
          /\ \/ /\ svDone' = svDone \cup {d}
                /\ svLog' = Append(svLog, Event("realized", d.name))
                /\ UNCHANGED <<svPlan, svStack, svPersisted, svResult>>
             \/ SaveAbort
    /\ UNCHANGED SaveRest

\* Steps 4 and 5: the on_save pipelines, then the connector saves the row.
SavePersist ==
    /\ svResult = "none" /\ svStack # <<>>
    /\ Top(svStack) \notin svPersisted
    /\ ReadyToPersist(svPlan, svDone, Top(svStack))
    /\ \/ /\ svPersisted' = svPersisted \cup {Top(svStack)}
          /\ svLog' = Append(svLog, Event("persisted", Top(svStack)))
          /\ UNCHANGED <<svPlan, svStack, svDone, svResult>>
       \/ SaveAbort
    /\ UNCHANGED SaveRest

\* Step 6, Create: the target object is saved by recursion.
SaveReferencedCreate ==
    /\ svResult = "none" /\ svStack # <<>>
    /\ \E d \in Pending(svPlan, svDone, Top(svStack), "referenced") :
          /\ d.kind = "Create"
          /\ MayApply(svPersisted, d)
          /\ svStack' = Append(svStack, d.target)
    /\ UNCHANGED <<svPlan, svDone, svPersisted, svLog, svResult, SaveRest>>

\* Step 6, Connect: the foreign key of the peer is updated.
SaveReferencedConnect ==
    /\ svResult = "none" /\ svStack # <<>>
    /\ \E d \in Pending(svPlan, svDone, Top(svStack), "referenced") :
          /\ d.kind = "Connect"
          /\ MayApply(svPersisted, d)
          /\ \/ /\ svDone' = svDone \cup {d}
                /\ svLog' = Append(svLog, Event("applied", d.name))
                /\ UNCHANGED <<svPlan, svStack, svPersisted, svResult>>
             \/ SaveAbort
    /\ UNCHANGED SaveRest

\* The save of an object returns: to the directive that created it, or to
\* the caller of save().
SaveReturn ==
    /\ svResult = "none" /\ svStack # <<>>
    /\ Top(svStack) \in svPersisted
    /\ \A d \in svPlan : d.of = Top(svStack) => d \in svDone
    /\ svStack' = Pop(svStack)
    /\ IF Len(svStack) = 1
       THEN /\ svResult' = "Ok"
            /\ UNCHANGED <<svDone, svLog>>
       ELSE LET d == CHOOSE c \in svPlan :
                        c.kind = "Create" /\ c.target = Top(svStack)
            IN /\ svDone' = svDone \cup {d}
               /\ svLog' = Append(svLog,
                      Event(IF d.side = "owner" THEN "realized" ELSE "applied",
                            d.name))
               /\ UNCHANGED svResult
    /\ UNCHANGED <<svPlan, svPersisted, SaveRest>>

IdleSave ==
    /\ svPlan = {}
    /\ svStack = <<>>
    /\ svDone = {}
    /\ svPersisted = {}
    /\ svLog = <<>>
    /\ svResult = "none"

(***************************************************************************)
(* core/graph/mod.rs: Graph::find_first                                    *)
(***************************************************************************)

\* The caller's finder: a JSON object with optional where, orderBy, skip,
\* cursor and take, or a JSON value that is no object.
JsonNull == [json |-> "null"]
IsObject(finder) == "take" \in DOMAIN finder
FirstFinders ==
    [where : {None, Some("w")}, orderBy : {None, Some("asc")},
     skip : {None, Some(1)}, cursor : {None, Some("c")},
     take : {None, Some(0), Some(2)}]
    \cup {JsonNull}
MaxFirstRows == 2
ConnectorErrors == {"ConnectorError", "ConnectorTimeout"}

FirstPanic == [kind |-> "Panic"]
FirstPending == [kind |-> "Pending"]

find_first_finder_KeepsTake(finder) ==
    IF IsSome(finder.take) THEN finder ELSE [finder EXCEPT !.take = Some(1)]

\* Lines 66-68: the finder handed to find_many.
find_first_finder(finder) == [finder EXCEPT !.take = Some(1)]

\* Lines 70-79: the result of find_first from the result of find_many.
find_first_result(result) ==
    IF result.kind = "Err" THEN result
    ELSE IF result.rows = <<>>
    THEN [kind |-> "Err", err |-> "ObjectNotFound"]
    ELSE [kind |-> "Ok", row |-> result.rows[1]]

\* Graph::find_first (lines 64-80): unwrap() of an undefined model or of
\* a finder that is no object aborts before the connector is called.
FindFirst ==
    /\ ffResult = FirstPending
    /\ IF Graph_model(ffModel) = None \/ ~IsObject(ffFinder)
       THEN /\ ffResult' = FirstPanic
            /\ UNCHANGED ffCalls
       ELSE /\ ffCalls' = Append(ffCalls, find_first_finder(ffFinder))
            /\ ffResult' = find_first_result(
                  IF IsSome(ffError)
                  THEN [kind |-> "Err", err |-> Unwrap(ffError)]
                  ELSE [kind |-> "Ok",
                        rows |-> Connector_find_many(ffRows,
                                     find_first_finder(ffFinder))])
    /\ UNCHANGED <<ffModel, ffFinder, ffRows, ffError>>
    /\ UNCHANGED <<dbVars, urlVars, batchVars, apiVars, findVars, objVars,
                   saveVars, oppVars, lateVars>>

IdleFirst ==
    /\ ffModel = "Simple"
    /\ ffFinder = JsonNull
    /\ ffRows = <<>>
    /\ ffError = None
    /\ ffCalls = <<>>
    /\ ffResult = FirstPending

(***************************************************************************)
(* core/graph/mod.rs: Graph::opposite_relation                             *)
(***************************************************************************)

\* A graph holds the models A and B; a relation may name the model Gone,
\* which no graph defines. Graph::new (lines 34-55) builds every model on
\* its own and checks nothing across models.
RelModels == {"A", "B"}
RelTargets == {"A", "B", "Gone"}
RelKeys == {<<"x">>, <<"y">>}

Direct(name, target, fields, references) ==
    [name |-> name, model |-> target, fields |-> fields,
     references |-> references, through |-> None, foreign |-> ""]
Through(name, target, through, foreign) ==
    [name |-> name, model |-> target, fields |-> <<>>, references |-> <<>>,
     through |-> Some(through), foreign |-> foreign]

RelationsNamed(name) ==
    {Direct(name, t, f, r) : t \in RelTargets, f \in RelKeys, r \in RelKeys}
    \cup {Through(name, "B", t, f) : t \in RelTargets, f \in {"r1", "r2"}}

Graphs ==
    [A : {<<>>} \cup {<<r>> : r \in RelationsNamed("r1")}
           \cup {<<r, q>> : r \in RelationsNamed("r1"),
                            q \in RelationsNamed("r2")},
     B : {<<>>} \cup {<<r>> : r \in RelationsNamed("r1")}]

\* Graph::model on a graph of relations.
Rel_model(g, name) == IF name \in DOMAIN g THEN Some(name) ELSE None

\* Model::relation: the relation of a model with a name.
Model_relation(g, m, name) ==
    IF \E i \in 1..Len(g[m]) : g[m][i].name = name
    THEN Some(g[m][CHOOSE i \in 1..Len(g[m]) : g[m][i].name = name])
    ELSE None

\* Lines 189-191: the first relation of the target model whose fields are
\* the references of the relation and whose references are its fields.
opposite_direct(g, relation) ==
    IF Rel_model(g, relation.model) = None THEN None
    ELSE LET rels == g[relation.model]
             hits == {i \in 1..Len(rels) :
                        /\ rels[i].fields = relation.references
                        /\ rels[i].references = relation.fields}
         IN IF hits = {} THEN None
            ELSE Some(<<relation.model,
                        rels[CHOOSE i \in hits : \A j \in hits : i <= j]>>)

OppPending == [kind |-> "Pending"]

OppRest ==
    <<dbVars, urlVars, batchVars, apiVars, findVars, objVars, saveVars,
      firstVars, lateVars>>

\* Lines 185-187: one call with a through relation: unwrap() aborts when
\* the through model or its relation named `foreign` is missing; otherwise
\* the call recurses on that relation. A relation met a second time is met
\* again and again: the recursion never returns.
OppositeThrough ==
    /\ orPc = "call"
    /\ IsSome(orChain[Len(orChain)].through)
    /\ LET relation == orChain[Len(orChain)]
           through == Unwrap(relation.through)
       IN IF Rel_model(orGraph, through) = None
          THEN orPc' = "panic" /\ UNCHANGED orChain
          ELSE IF Model_relation(orGraph, through, relation.foreign) = None
          THEN orPc' = "panic" /\ UNCHANGED orChain
          ELSE LET next == Unwrap(Model_relation(orGraph, through,
                                                 relation.foreign))
               IN IF \E i \in 1..Len(orChain) : orChain[i] = next
                  THEN orPc' = "diverged" /\ UNCHANGED orChain
                  ELSE orPc' = "call" /\ orChain' = Append(orChain, next)
    /\ UNCHANGED <<orGraph, orStart, orResult, OppRest>>

\* Lines 189-191: one call with a direct relation returns.
OppositeDirect ==
    /\ orPc = "call"
    /\ orChain[Len(orChain)].through = None
    /\ orResult' = [kind |-> "Returned",
                    value |-> opposite_direct(orGraph, orChain[Len(orChain)])]
    /\ orPc' = "done"
    /\ UNCHANGED <<orGraph, orStart, orChain, OppRest>>

IdleOpp ==
    /\ orGraph = [A |-> <<>>, B |-> <<>>]
    /\ orStart = <<>>
    /\ orChain = <<>>
    /\ orPc = "idle"
    /\ orResult = OppPending

(***************************************************************************)
(* gen/internal/client/outline/outline.rs: Outline::new, the classes of    *)
(* one model                                                               *)
(***************************************************************************)

\* A model of the graph as the outline reads it: fields, properties and
\* relations with distinct names. `opposite` is what
\* graph.opposite_relation(relation) does for the relation: it returns, or
\* it aborts or never returns.
OutlineId ==
    [name |-> "id", write |-> FALSE, read |-> TRUE, query |-> TRUE,
     sort |-> TRUE]
OutlineFieldShapes ==
    {[name |-> "name", write |-> TRUE, read |-> TRUE, query |-> TRUE,
      sort |-> TRUE],
     [name |-> "name", write |-> FALSE, read |-> TRUE, query |-> TRUE,
      sort |-> TRUE],
     [name |-> "name", write |-> TRUE, read |-> FALSE, query |-> FALSE,
      sort |-> FALSE]}
OutlineProperties ==
    {<<>>} \cup {<<[name |-> "fullName", setter |-> b, getter |-> TRUE]>> :
                   b \in BOOLEAN}
RelationNames == {"author", "posts", "my_rel", "myRel"}
MaxRelations == 2
OutlineRelation == [name : RelationNames, opposite : {"returns", "aborts"}]
OutlineRelations ==
    {rs \in UNION {[1..n -> OutlineRelation] : n \in 0..MaxRelations} :
        \A i, j \in 1..Len(rs) : rs[i].name = rs[j].name => i = j}
\* The indices of the model: the primary index on id, then up to
\* MaxIndices declared indices over the two fields.
MaxIndices == 1
OutlineIndex(is_unique, keys) == [unique |-> is_unique, keys |-> keys]
DeclaredIndices ==
    {OutlineIndex(TRUE, <<"name">>), OutlineIndex(TRUE, <<"id", "name">>),
     OutlineIndex(TRUE, <<"name", "id">>), OutlineIndex(FALSE, <<"name">>)}
OutlineIndices ==
    {<<OutlineIndex(TRUE, <<"id">>)>> \o more :
        more \in UNION {[1..n -> DeclaredIndices] : n \in 0..MaxIndices}}
OutlineModels ==
    [name : {"User"}, fields : {<<OutlineId, f>> : f \in OutlineFieldShapes},
     properties : OutlineProperties, relations : OutlineRelations,
     indices : OutlineIndices]

\* Inflector's to_pascal_case on the relation names.
to_pascal_case(name) ==
    CASE name = "author" -> "Author"
      [] name = "posts" -> "Posts"
      [] name = "my_rel" -> "MyRel"
      [] name = "myRel" -> "MyRel"

\* Lines 572-578: a name is the sequence of the pieces it is joined from.
without_infix_no_model_name(before, w, after) ==
    IF w = "" THEN <<before, after>>
    ELSE <<before, "Without", to_pascal_case(w), after>>

MapNames(items) == [i \in 1..Len(items) |-> items[i].name]
Lookup(items, k) ==
    IF \E i \in 1..Len(items) : items[i].name = k
    THEN Some(items[CHOOSE i \in 1..Len(items) : items[i].name = k])
    ELSE None
m_field(m, k) == Lookup(m.fields, k)
m_property(m, k) == Lookup(m.properties, k)
m_relation(m, k) == Lookup(m.relations, k)

Writable(f) == f.write
Readable(f) == f.read
Queryable(f) == f.query
Sortable(f) == f.sort
IsUnique(i) == i.unique
HasSetter(p) == p.setter
HasGetter(p) == p.getter

m_output_keys(m) ==
    MapNames(SelectSeq(m.fields, Readable))
        \o MapNames(SelectSeq(m.properties, HasGetter))
m_input_keys(m) ==
    MapNames(SelectSeq(m.fields, Writable))
        \o MapNames(SelectSeq(m.properties, HasSetter))
        \o MapNames(m.relations)
m_query_keys(m) ==
    MapNames(SelectSeq(m.fields, Queryable)) \o MapNames(m.relations)
m_sort_keys(m) == MapNames(SelectSeq(m.fields, Sortable))
RECURSIVE dedup_by_name(_)
\* Itertools::dedup_by (line 162): of a run of consecutive equal names the
\* first is kept.
dedup_by_name(names) ==
    IF Len(names) <= 1 THEN names
    ELSE LET rest == dedup_by_name(Tail(names))
         IN IF Head(names) = Head(rest) THEN rest
            ELSE <<Head(names)>> \o rest

RECURSIVE KeysOf(_)
KeysOf(indices) ==
    IF indices = <<>> THEN <<>>
    ELSE Head(indices).keys \o KeysOf(Tail(indices))

\* Lines 155-162: the keys of the unique indices, one list after the
\* other, with adjacent repetitions removed.
unique_keys(m) == dedup_by_name(KeysOf(SelectSeq(m.indices, IsUnique)))

OutlineClass(m, suffix, kind, fields) ==
    [model_name |-> m.name, name_suffix |-> suffix, kind |-> kind,
     fields |-> fields]
OutlineFields(names, kind) ==
    [i \in 1..Len(names) |-> [name |-> names[i], kind |-> kind]]

\* Which kind of member a key names: a field, else a property, else a
\* relation (lines 199-236).
KeyKind(m, k) ==
    IF IsSome(m_field(m, k)) THEN "Field"
    ELSE IF IsSome(m_property(m, k)) THEN "Property"
    ELSE IF IsSome(m_relation(m, k)) THEN "Relation"
    ELSE "Unreachable"

input_fields_KeepsAll(m, w) ==
    [i \in 1..Len(m_input_keys(m)) |->
        [name |-> m_input_keys(m)[i], kind |-> KeyKind(m, m_input_keys(m)[i])]]

\* Lines 199-236 and 342-379: one field per input key, the relation named
\* w left out.
input_fields(m, w) ==
    LET Kept(k) == ~(KeyKind(m, k) = "Relation" /\ k = w)
        keys == SelectSeq(m_input_keys(m), Kept)
    IN [i \in 1..Len(keys) |->
          [name |-> keys[i], kind |-> KeyKind(m, keys[i])]]

\* Lines 227 and 370: every relation field asks the graph for the opposite
\* relation; the outline is not built when that call does not return.
input_aborts(m, w) ==
    \E i \in 1..Len(m.relations) :
        /\ m.relations[i].name # w
        /\ m.relations[i].opposite = "aborts"

without_OnlyRelations(m) == MapNames(m.relations)

\* Lines 185-189.
without(m) == <<"">> \o MapNames(m.relations)

Predefined(names) == OutlineFields(names, "Predefined")

\* Lines 38-184.
base_classes(m) ==
    <<OutlineClass(m, <<>>, "DataOutput",
          [i \in 1..Len(m_output_keys(m)) |->
              [name |-> m_output_keys(m)[i],
               kind |-> KeyKind(m, m_output_keys(m)[i])]]
          \o OutlineFields(MapNames(m.relations), "Relation")),
      OutlineClass(m, <<"Select">>, "SelectInput",
          OutlineFields(MapNames(SelectSeq(m.fields, Readable)), "Field"))>>
    \o (IF m.relations = <<>> THEN <<>>
        ELSE <<OutlineClass(m, <<"Include">>, "IncludeInput",
                   OutlineFields(MapNames(m.relations), "Relation"))>>)
    \o <<OutlineClass(m, <<"WhereInput">>, "WhereInput",
             [i \in 1..Len(m_query_keys(m)) |->
                 [name |-> m_query_keys(m)[i],
                  kind |-> KeyKind(m, m_query_keys(m)[i])]]),
         OutlineClass(m, <<"WhereUniqueInput">>, "WhereUniqueInput",
             OutlineFields(unique_keys(m), "Field")),
         OutlineClass(m, <<"OrderByInput">>, "OrderByInput",
             OutlineFields(m_sort_keys(m), "Field"))>>

\* Lines 191-332.
create_classes(m, w) ==
    <<OutlineClass(m, without_infix_no_model_name("Create", w, "Input"),
          "CreateInput", input_fields(m, w)),
      OutlineClass(m,
          without_infix_no_model_name("CreateNestedMany", w, "Input"),
          "CreateNestedManyInput",
          Predefined(<<"create", "connectOrCreate", "connect">>)),
      OutlineClass(m,
          without_infix_no_model_name("CreateNestedOne", w, "Input"),
          "CreateNestedOneInput",
          Predefined(<<"create", "connectOrCreate", "connect">>)),
      OutlineClass(m,
          without_infix_no_model_name("ConnectOrCreate", w, "Input"),
          "ConnectOrCreateInput", Predefined(<<"where", "create">>))>>

\* Lines 334-548. The two nested update classes carry the kind
\* ClassKind::CreateNestedManyInput (lines 387 and 477).
update_classes(m, w) ==
    <<OutlineClass(m, without_infix_no_model_name("Update", w, "Input"),
          "UpdateInput", input_fields(m, w)),
      OutlineClass(m,
          without_infix_no_model_name("UpdateNestedMany", w, "Input"),
          "CreateNestedManyInput",
          Predefined(<<"create", "connectOrCreate", "connect", "set",
                       "update", "upsert", "disconnect", "delete",
                       "updateMany", "deleteMany">>)),
      OutlineClass(m,
          without_infix_no_model_name("UpdateNestedOne", w, "Input"),
          "CreateNestedManyInput",
          Predefined(<<"create", "connectOrCreate", "connect", "set",
                       "update", "upsert", "disconnect", "delete">>))>>

RECURSIVE Flatten(_)
Flatten(lists) ==
    IF lists = <<>> THEN <<>> ELSE Head(lists) \o Flatten(Tail(lists))

\* Lines 37-552: the classes of one model.
model_classes(m) ==
    base_classes(m)
        \o Flatten([j \in 1..Len(without(m)) |->
                       create_classes(m, without(m)[j])])
        \o Flatten([j \in 1..Len(without(m)) |->
                       update_classes(m, without(m)[j])])

OutlineNew ==
    /\ olPc = "start"
    /\ IF \E j \in 1..Len(without(olModel)) :
             input_aborts(olModel, without(olModel)[j])
       THEN olPc' = "panic" /\ UNCHANGED olClasses
       ELSE olPc' = "done" /\ olClasses' = model_classes(olModel)
    /\ UNCHANGED <<olModel, dbVars, urlVars, batchVars, apiVars, findVars,
                   objVars, saveVars, firstVars, oppVars, gbVars, tyVars,
                   tail1Vars>>

IdleOutline ==
    /\ olModel = [name |-> "", fields |-> <<>>, properties |-> <<>>,
                  relations |-> <<>>, indices |-> <<>>]
    /\ olPc = "idle"
    /\ olClasses = <<>>

(***************************************************************************)
(* core/builders.rs: GraphBuilder; core/graph/mod.rs: Graph::new           *)
(***************************************************************************)

ModelDeclNames == {"Simple", "Compound"}
ModelBodies == {"first", "second"}
EnumDeclNames == {"Sex"}
EnumValueLists == {<<"MALE">>, <<"MALE", "FEMALE">>}
MaxDeclarations == 3

\* HashMap::insert: the value of an existing key is replaced.
HashMap_insert(map, key, value) ==
    [k \in DOMAIN map \cup {key} |-> IF k = key THEN value ELSE map[k]]

BuildRest ==
    <<dbVars, urlVars, batchVars, apiVars, findVars, objVars, saveVars,
      firstVars, oppVars, olVars, tyVars, tail1Vars>>

\* builders.rs lines 31-33.
GraphBuilder_enum(name, values) ==
    /\ gbPc = "building"
    /\ Len(gbLog) < MaxDeclarations
    /\ gbEnums' = HashMap_insert(gbEnums, name, values)
    /\ gbLog' = Append(gbLog, [kind |-> "enum", name |-> name,
                                 body |-> values])
    /\ UNCHANGED <<gbModels, gbPc, gbGraph, BuildRest>>

\* builders.rs lines 35-39.
GraphBuilder_model(name, body) ==
    /\ gbPc = "building"
    /\ Len(gbLog) < MaxDeclarations
    /\ gbModels' = Append(gbModels, [name |-> name, body |-> body])
    /\ gbLog' = Append(gbLog, [kind |-> "model", name |-> name,
                                 body |-> body])
    /\ UNCHANGED <<gbEnums, gbPc, gbGraph, BuildRest>>

RECURSIVE models_map_of(_)
\* mod.rs lines 47-50: every model of the list is inserted under its name.
models_map_of(models) ==
    IF models = <<>> THEN <<>>
    ELSE LET front == [i \in 1..(Len(models) - 1) |-> models[i]]
             last == models[Len(models)]
         IN HashMap_insert(models_map_of(front), last.name, last)

\* mod.rs lines 34-55: Graph::new after the build closure has run. There is
\* no error result.
Graph_new ==
    /\ gbPc = "building"
    /\ gbPc' = "built"
    /\ gbGraph' = [kind |-> "Graph", enums |-> gbEnums,
                    models_vec |-> gbModels,
                    models_map |-> models_map_of(gbModels)]
    /\ UNCHANGED <<gbEnums, gbModels, gbLog, BuildRest>>

IdleBuild ==
    /\ gbEnums = <<>>
    /\ gbModels = <<>>
    /\ gbLog = <<>>
    /\ gbPc = "idle"
    /\ gbGraph = [kind |-> "None"]

(***************************************************************************)
(* old_app/parse_schema.rs: install_types_to_field_owner                   *)
(***************************************************************************)

BuiltinNames ==
    {"String", "Bool", "Int", "Int32", "Int64", "Float32", "Float",
     "Float64", "Date", "DateTime", "Decimal"}
EnumNames == {"Sex", "String", "ObjectId"}
Namespaces == {<<>>, <<"auth">>}

\* The type paths a schema writes: one segment, or a namespace and a name.
TypePaths ==
    {<<n>> : n \in BuiltinNames \cup EnumNames}
        \cup {<<"auth", n>> : n \in EnumNames}

\* The enum declarations of the parser: the namespace path and the name.
EnumDecls == [ns_path : Namespaces, name : EnumNames]

Installed(tag) == [tag |-> tag, arg |-> <<>>]
InstalledEnum(path) == [tag |-> "Enum", arg |-> path]

builtin_type_IntAsI64(name, mongodb) ==
    CASE name = "String" -> Some(Installed("String"))
      [] name = "Bool" -> Some(Installed("Bool"))
      [] name \in {"Int", "Int32", "Int64"} -> Some(Installed("I64"))
      [] name = "Float32" -> Some(Installed("F32"))
      [] name \in {"Float", "Float64"} -> Some(Installed("F64"))
      [] name = "Date" -> Some(Installed("Date"))
      [] name = "DateTime" -> Some(Installed("DateTime"))
      [] name = "Decimal" -> Some(Installed("Decimal"))
      [] name = "ObjectId" /\ mongodb -> Some(Installed("ObjectId"))
      [] OTHER -> None

\* Lines 130-143: the match on a single-segment name; the ObjectId arm is
\* compiled with the feature data-source-mongodb only.
builtin_type(name, mongodb) ==
    CASE name = "String" -> Some(Installed("String"))
      [] name = "Bool" -> Some(Installed("Bool"))
      [] name \in {"Int", "Int32"} -> Some(Installed("I32"))
      [] name = "Int64" -> Some(Installed("I64"))
      [] name = "Float32" -> Some(Installed("F32"))
      [] name \in {"Float", "Float64"} -> Some(Installed("F64"))
      [] name = "Date" -> Some(Installed("Date"))
      [] name = "DateTime" -> Some(Installed("DateTime"))
      [] name = "Decimal" -> Some(Installed("Decimal"))
      [] name = "ObjectId" /\ mongodb -> Some(Installed("ObjectId"))
      [] OTHER -> None

\* Lines 126-150. e is the enum enum_by_id finds for the type id of the
\* field.
field_type_of(path, e, mongodb) ==
    IF Len(path) = 1 /\ IsSome(builtin_type(path[1], mongodb))
    THEN Unwrap(builtin_type(path[1], mongodb))
    ELSE InstalledEnum(Append(e.ns_path, e.name))

install_types_to_field_owner ==
    /\ tyPc = "start"
    /\ tyType' = field_type_of(tyName, tyEnums, tyMongo)
    /\ tyPc' = "done"
    /\ UNCHANGED <<tyName, tyEnums, tyMongo, dbVars, urlVars, batchVars,
                   apiVars, findVars, objVars, saveVars, firstVars, oppVars,
                   olVars, gbVars, tail1Vars>>

IdleTypes ==
    /\ tyName = <<>>
    /\ tyEnums = <<>>
    /\ tyMongo = FALSE
    /\ tyPc = "idle"
    /\ tyType = Installed("Undefined")

\* The parts before remove_scheme.
Part0Vars ==
    <<dbVars, urlVars, batchVars, apiVars, findVars, objVars, saveVars,
      firstVars, oppVars, olVars, gbVars, tyVars>>

(***************************************************************************)
(* connectors/sql/url/mod.rs: remove_scheme and is_memory_url              *)
(***************************************************************************)

\* A string is the sequence of its characters.
StrFile == <<"f", "i", "l", "e">>
StrSqlite == <<"s", "q", "l", "i", "t", "e">>
StrMysql == <<"m", "y", "s", "q", "l">>
StrPostgres == <<"p", "o", "s", "t", "g", "r", "e", "s">>
StrMssql == <<"m", "s", "s", "q", "l">>
StrColon == <<":">>
StrSlash == <<"/">>
StrSlashes == <<"/", "/">>
StrMemory == <<":", "m", "e", "m", "o", "r", "y", ":">>
StrDb == <<"d", "b">>

\* The pieces the URLs are put together from.
UrlPieces ==
    {StrFile, StrSqlite, StrMysql, StrPostgres, StrMssql, StrColon, StrSlash,
     StrSlashes, StrMemory, StrDb}
MaxPieces == 4
RECURSIVE Joined(_)
Joined(n) ==
    IF n = 0 THEN {<<>>}
    ELSE Joined(n - 1) \cup {u \o q : u \in Joined(n - 1), q \in UrlPieces}
SchemeUrls == Joined(MaxPieces)

starts_with(url, prefix) ==
    /\ Len(url) >= Len(prefix)
    /\ SubSeq(url, 1, Len(prefix)) = prefix
\* &url[n..]
SliceFrom(url, n) == SubSeq(url, n + 1, Len(url))

remove_scheme_BareFirst(url) ==
    IF starts_with(url, StrFile \o StrColon) THEN SliceFrom(url, 5)
    ELSE IF starts_with(url, StrSqlite \o StrColon) THEN SliceFrom(url, 7)
    ELSE IF starts_with(url, StrFile \o StrColon \o StrSlashes)
    THEN SliceFrom(url, 7)
    ELSE IF starts_with(url, StrSqlite \o StrColon \o StrSlashes)
    THEN SliceFrom(url, 9)
    ELSE IF starts_with(url, StrMysql \o StrColon \o StrSlashes)
    THEN SliceFrom(url, 8)
    ELSE IF starts_with(url, StrPostgres \o StrColon \o StrSlashes)
    THEN SliceFrom(url, 11)
    ELSE IF starts_with(url, StrMssql \o StrColon \o StrSlashes)
    THEN SliceFrom(url, 8)
    ELSE url

\* Lines 8-26.
remove_scheme(url) ==
    IF starts_with(url, StrFile \o StrColon \o StrSlashes)
    THEN SliceFrom(url, 7)
    ELSE IF starts_with(url, StrSqlite \o StrColon \o StrSlashes)
    THEN SliceFrom(url, 9)
    ELSE IF starts_with(url, StrFile \o StrColon) THEN SliceFrom(url, 5)
    ELSE IF starts_with(url, StrSqlite \o StrColon) THEN SliceFrom(url, 7)
    ELSE IF starts_with(url, StrMysql \o StrColon \o StrSlashes)
    THEN SliceFrom(url, 8)
    ELSE IF starts_with(url, StrPostgres \o StrColon \o StrSlashes)
    THEN SliceFrom(url, 11)
    ELSE IF starts_with(url, StrMssql \o StrColon \o StrSlashes)
    THEN SliceFrom(url, 8)
    ELSE url

\* Lines 28-30.
is_memory_url(url) == url = StrMemory

(***************************************************************************)
(* app/app_ctx.rs: the process-wide AppCtx                                 *)
(***************************************************************************)

MaxContexts == 2
MaxHandlers == 3
HandlerGroups == {"g1", "g2"}
HandlerNames == {"n1", "n2"}
HandlerFns == {"f", "h"}
Threads == {"t1", "t2"}

\* Lines 51-74: AppCtx::new; the options are unset, the collections empty.
AppCtx_new ==
    [parser |-> None, connector |-> None, graph |-> None,
     entrance |-> "APP", clients |-> <<>>, action_handlers |-> <<>>,
     action_map |-> <<>>]

CtxRest == <<Part0Vars, rsVars, bxVars>>
CtxCalling == axPc = "run"
ThreadsIdle == [t \in Threads |-> [pc |-> "idle", ptr |-> 0, ret |-> "none"]]

\* Lines 76-86: create, called by the one thread of the program.
AppCtx_create ==
    /\ CtxCalling
    /\ IF IsSome(axCurrent)
       THEN /\ axLast' = [op |-> "create", result |-> [kind |-> "False"]]
            /\ UNCHANGED <<axCurrent, axHeap, axNext>>
       ELSE /\ axNext < MaxContexts
            /\ axHeap' = HashMap_insert(axHeap, axNext + 1, AppCtx_new)
            /\ axCurrent' = Some(axNext + 1)
            /\ axNext' = axNext + 1
            /\ axLast' = [op |-> "create", result |-> [kind |-> "True"]]
    /\ UNCHANGED <<axPc, axThreads, CtxRest>>

\* Lines 88-95: drop frees the context; CURRENT.unwrap() aborts when there
\* is none.
AppCtx_drop ==
    /\ CtxCalling
    /\ IF IsSome(axCurrent)
       THEN /\ axHeap' = [k \in DOMAIN axHeap \ {Unwrap(axCurrent)} |->
                            axHeap[k]]
            /\ axCurrent' = None
            /\ axLast' = [op |-> "drop", result |-> [kind |-> "Done"]]
            /\ UNCHANGED axPc
       ELSE /\ axPc' = "panic"
            /\ axLast' = [op |-> "drop", result |-> [kind |-> "Panic"]]
            /\ UNCHANGED <<axCurrent, axHeap>>
    /\ UNCHANGED <<axNext, axThreads, CtxRest>>

AppCtx_get_result_Stale(current) ==
    IF current = None /\ axNext = 0 THEN [kind |-> "Fatal"]
    ELSE [kind |-> "Ok", ctx |-> axNext]

\* Lines 97-104.
AppCtx_get_result(current) ==
    IF IsSome(current) THEN [kind |-> "Ok", ctx |-> Unwrap(current)]
    ELSE [kind |-> "Fatal"]

AppCtx_get ==
    /\ CtxCalling
    /\ axLast' = [op |-> "get", result |-> AppCtx_get_result(axCurrent)]
    /\ UNCHANGED <<axCurrent, axHeap, axNext, axPc, axThreads, CtxRest>>

HandlerDef(group, name, f, id) ==
    [group |-> group, name |-> name, f |-> f, id |-> id]

action_map_insert_KeepsFirst(map, group, name, def) ==
    IF group \in DOMAIN map /\ name \in DOMAIN map[group] THEN map
    ELSE IF group \in DOMAIN map
    THEN HashMap_insert(map, group, HashMap_insert(map[group], name, def))
    ELSE HashMap_insert(map, group, HashMap_insert(<<>>, name, def))

\* Lines 293-298: the map of the group is created when missing, the
\* handler is inserted under its name.
action_map_insert(map, group, name, def) ==
    LET with_group == IF group \in DOMAIN map THEN map
                      ELSE HashMap_insert(map, group, <<>>)
    IN HashMap_insert(with_group, group,
                      HashMap_insert(with_group[group], name, def))

\* Lines 286-300: add_action_handler on the current context (get_mut).
AppCtx_add_action_handler(group, name, f) ==
    /\ CtxCalling
    /\ IF axCurrent = None
       THEN /\ axLast' = [op |-> "add_action_handler",
                          result |-> [kind |-> "Fatal"]]
            /\ UNCHANGED axHeap
       ELSE LET id == Unwrap(axCurrent)
                ctx == axHeap[id]
                def == HandlerDef(group, name, f,
                                  Len(ctx.action_handlers) + 1)
            IN /\ Len(ctx.action_handlers) < MaxHandlers
               /\ axHeap' = [axHeap EXCEPT ![id] =
                     [ctx EXCEPT
                        !.action_handlers = Append(@, def),
                        !.action_map = action_map_insert(@, group, name,
                                                         def)]]
               /\ axLast' = [op |-> "add_action_handler",
                             result |-> [kind |-> "Ok"]]
    /\ UNCHANGED <<axCurrent, axNext, axPc, axThreads, CtxRest>>

\* Lines 326-328.
has_action_handler_for(ctx, group, name) ==
    group \in DOMAIN ctx.action_map /\ name \in DOMAIN ctx.action_map[group]

\* Lines 330-332: both unwrap() abort for a handler that is not there.
get_action_handler(ctx, group, name) ==
    IF has_action_handler_for(ctx, group, name)
    THEN [kind |-> "Ok", def |-> ctx.action_map[group][name]]
    ELSE [kind |-> "Panic"]

\* A lookup on the context AppCtx::get returned.
AppCtx_lookup(group, name) ==
    /\ CtxCalling
    /\ IsSome(axCurrent)
    /\ axLast' = [op |-> "lookup", group |-> group, name |-> name,
                  has |-> has_action_handler_for(axHeap[Unwrap(axCurrent)],
                                                 group, name),
                  result |-> get_action_handler(axHeap[Unwrap(axCurrent)],
                                                group, name)]
    /\ axPc' = IF axLast'.result.kind = "Panic" THEN "panic" ELSE axPc
    /\ UNCHANGED <<axCurrent, axHeap, axNext, axThreads, CtxRest>>

\* Lines 76-86 called by two threads at once. CURRENT is a `static mut`
\* read and written without synchronisation: the test of line 78, the
\* allocation of line 81 and the store of line 83 of the two calls
\* interleave.
CreateTest(t) ==
    /\ axPc = "race"
    /\ axThreads[t].pc = "test"
    /\ axThreads' = [axThreads EXCEPT ![t] =
          IF IsSome(axCurrent)
          THEN [pc |-> "done", ptr |-> 0, ret |-> "false"]
          ELSE [pc |-> "alloc", ptr |-> 0, ret |-> "none"]]
    /\ UNCHANGED <<axCurrent, axHeap, axNext, axPc, axLast, CtxRest>>

CreateAlloc(t) ==
    /\ axPc = "race"
    /\ axThreads[t].pc = "alloc"
    /\ axHeap' = HashMap_insert(axHeap, axNext + 1, AppCtx_new)
    /\ axNext' = axNext + 1
    /\ axThreads' = [axThreads EXCEPT ![t] =
          [pc |-> "store", ptr |-> axNext + 1, ret |-> "none"]]
    /\ UNCHANGED <<axCurrent, axPc, axLast, CtxRest>>

CreateStore(t) ==
    /\ axPc = "race"
    /\ axThreads[t].pc = "store"
    /\ axCurrent' = Some(axThreads[t].ptr)
    /\ axThreads' = [axThreads EXCEPT ![t] =
          [pc |-> "done", ptr |-> @.ptr, ret |-> "true"]]
    /\ UNCHANGED <<axHeap, axNext, axPc, axLast, CtxRest>>

\* AppCtx::get, called while the two calls run or after they returned.
RaceGet ==
    /\ axPc = "race"
    /\ axLast' = [op |-> "get", result |-> AppCtx_get_result(axCurrent)]
    /\ UNCHANGED <<axCurrent, axHeap, axNext, axPc, axThreads, CtxRest>>

IdleCtx ==
    /\ axCurrent = None
    /\ axHeap = <<>>
    /\ axNext = 0
    /\ axPc = "idle"
    /\ axLast = [op |-> "none", result |-> [kind |-> "None"]]
    /\ axThreads = ThreadsIdle

\* Everything but the variables of remove_scheme.
SchemeRest == <<Part0Vars, bxVars, axVars>>

RemoveScheme ==
    /\ rsPc = "start"
    /\ rsResult' = remove_scheme(rsUrl)
    /\ rsPc' = "done"
    /\ UNCHANGED <<rsUrl, SchemeRest>>

IdleScheme ==
    /\ rsUrl = <<>>
    /\ rsPc = "idle"
    /\ rsResult = <<>>

IdleTail1 == IdleScheme /\ IdleBatchExt /\ IdleCtx

IdleLate == IdleOutline /\ IdleBuild /\ IdleTypes /\ IdleTail1

IdleFind == compounds = <<>>

IdleExt == IdleFind /\ IdleObj /\ IdleSave /\ IdleFirst /\ IdleOpp /\ IdleLate
IdlePart0 ==
    /\ IdleDb /\ IdleUrl /\ IdleBatch /\ IdleApi /\ IdleFind /\ IdleObj
    /\ IdleSave /\ IdleFirst /\ IdleOpp /\ IdleOutline /\ IdleBuild
    /\ IdleTypes

InitDb ==
    /\ ft \in FieldType
    /\ dialect \in SQLDialect
    /\ dbResult = DbPending
    /\ IdleUrl /\ IdleBatch /\ IdleApi /\ IdleExt

NextDb == Convert

SpecDb == InitDb /\ [][NextDb]_vars

InitUrl ==
    /\ urlText \in UrlTexts
    /\ urlDialect \in SQLDialect
    /\ urlResult = UrlPending
    /\ urlAgain = UrlPending
    /\ IdleDb /\ IdleBatch /\ IdleApi /\ IdleExt

NextUrl == NormalizeUrl \/ NormalizeUrlAgain

SpecUrl == InitUrl /\ [][NextUrl]_vars

\* The server starts on a reset database.
InitApi ==
    /\ store = <<>>
    /\ nextId = 1
    /\ request = NoRequest
    /\ response = NoResponse
    /\ IdleDb /\ IdleUrl /\ IdleBatch /\ IdleExt

NextApi == CreateRequest \/ UpdateRequest

SpecApi == InitApi /\ [][NextApi]_vars

\* The find_unique tests start on a reset database.
InitFind == InitApi

NextFind == CreateSimpleRequest \/ CreateCompoundRequest \/ FindUniqueRequest

SpecFind == InitFind /\ [][NextFind]_vars

\* The object is made by graph.create_object(model, initial).
InitObject ==
    /\ \E initial \in ObjPayloads :
          /\ Graph_create_object("Simple", initial).ok
          /\ obj = Unwrap(Graph_create_object("Simple", initial).value)
    /\ objOp = [op |-> "create_object", result |-> Done]
    /\ IdleDb /\ IdleUrl /\ IdleBatch /\ IdleApi /\ IdleFind /\ IdleSave
    /\ IdleFirst /\ IdleOpp /\ IdleLate

NextObject ==
    \/ Set \/ SetJson \/ Get \/ Save \/ Delete
    \/ ToJsonCall \/ IsModified \/ IsNew

SpecObject == InitObject /\ [][NextObject]_vars

\* No object yet: the caller calls graph.create_object and then uses the
\* object it was given.
InitCreate ==
    /\ IdleObj
    /\ IdleDb /\ IdleUrl /\ IdleBatch /\ IdleApi /\ IdleFind /\ IdleSave
    /\ IdleFirst /\ IdleOpp /\ IdleLate

NextCreate == CreateObject \/ (ObjCreated /\ NextObject)

SpecCreate == InitCreate /\ [][NextCreate]_vars

\* root.save() is called with a plan decoded from the input.
InitSave ==
    /\ svPlan \in Plans
    /\ svStack = <<"root">>
    /\ svDone = {}
    /\ svPersisted = {}
    /\ svLog = <<>>
    /\ svResult = "none"
    /\ IdleDb /\ IdleUrl /\ IdleBatch /\ IdleApi /\ IdleFind /\ IdleObj
    /\ IdleFirst /\ IdleOpp /\ IdleLate

NextSave ==
    \/ SaveOwnerCreate \/ SaveOwnerConnect \/ SavePersist
    \/ SaveReferencedCreate \/ SaveReferencedConnect \/ SaveReturn

SpecSave == InitSave /\ [][NextSave]_vars

\* find_first(model, finder, mutation_mode, env) is called; ffRows are the
\* rows matching the finder in the connector's order, ffError the error of
\* the connector, if it fails.
InitFirst ==
    /\ ffModel \in {"Simple", "Missing"}
    /\ ffFinder \in FirstFinders
    /\ ffRows \in {RowsOf(n) : n \in 0..MaxFirstRows}
    /\ ffError \in {None} \cup {Some(e) : e \in ConnectorErrors}
    /\ ffCalls = <<>>
    /\ ffResult = FirstPending
    /\ IdleDb /\ IdleUrl /\ IdleBatch /\ IdleApi /\ IdleFind /\ IdleObj
    /\ IdleSave /\ IdleOpp /\ IdleLate

NextFirst == FindFirst

SpecFirst == InitFirst /\ [][NextFirst]_vars

\* opposite_relation(relation) is called with a relation of a model of the
\* graph.
InitOpp ==
    /\ orGraph \in Graphs
    /\ \E m \in RelModels : \E i \in 1..Len(orGraph[m]) :
          /\ orStart = <<m, orGraph[m][i].name>>
          /\ orChain = <<orGraph[m][i]>>
    /\ orPc = "call"
    /\ orResult = OppPending
    /\ IdleDb /\ IdleUrl /\ IdleBatch /\ IdleApi /\ IdleFind /\ IdleObj
    /\ IdleSave /\ IdleFirst /\ IdleLate

NextOpp == OppositeThrough \/ OppositeDirect

SpecOpp == InitOpp /\ [][NextOpp]_vars

InitOutline ==
    /\ olModel \in OutlineModels
    /\ olPc = "start"
    /\ olClasses = <<>>
    /\ IdleDb /\ IdleUrl /\ IdleBatch /\ IdleApi /\ IdleFind /\ IdleObj
    /\ IdleSave /\ IdleFirst /\ IdleOpp /\ IdleBuild /\ IdleTypes
    /\ IdleTail1

NextOutline == OutlineNew

SpecOutline == InitOutline /\ [][NextOutline]_vars

InitBuild ==
    /\ gbEnums = <<>>
    /\ gbModels = <<>>
    /\ gbLog = <<>>
    /\ gbPc = "building"
    /\ gbGraph = [kind |-> "None"]
    /\ IdleDb /\ IdleUrl /\ IdleBatch /\ IdleApi /\ IdleFind /\ IdleObj
    /\ IdleSave /\ IdleFirst /\ IdleOpp /\ IdleOutline /\ IdleTypes
    /\ IdleTail1

NextBuild ==
    \/ \E name \in EnumDeclNames, values \in EnumValueLists :
          GraphBuilder_enum(name, values)
    \/ \E name \in ModelDeclNames, body \in ModelBodies :
          GraphBuilder_model(name, body)
    \/ Graph_new

SpecBuild == InitBuild /\ [][NextBuild]_vars

\* The resolver has bound the type of the field to an enum whose name is
\* the last segment of the path; the type id of a field with a built-in
\* type is not read.
InitTypes ==
    /\ tyName \in TypePaths
    /\ tyEnums \in EnumDecls
    /\ tyName[Len(tyName)] \in EnumNames =>
          /\ tyEnums.name = tyName[Len(tyName)]
          /\ Len(tyName) = 2 => tyEnums.ns_path = <<tyName[1]>>
    /\ tyMongo \in BOOLEAN
    /\ tyPc = "start"
    /\ tyType = Installed("Undefined")
    /\ IdleDb /\ IdleUrl /\ IdleBatch /\ IdleApi /\ IdleFind /\ IdleObj
    /\ IdleSave /\ IdleFirst /\ IdleOpp /\ IdleOutline /\ IdleBuild
    /\ IdleTail1

NextTypes == install_types_to_field_owner

SpecTypes == InitTypes /\ [][NextTypes]_vars

InitScheme ==
    /\ rsUrl \in SchemeUrls
    /\ rsPc = "start"
    /\ rsResult = <<>>
    /\ IdlePart0 /\ IdleBatchExt /\ IdleCtx

NextScheme == RemoveScheme

SpecScheme == InitScheme /\ [][NextScheme]_vars

\* The program starts with CURRENT = None (line 352).
InitCtx ==
    /\ axCurrent = None
    /\ axHeap = <<>>
    /\ axNext = 0
    /\ axPc = "run"
    /\ axLast = [op |-> "none", result |-> [kind |-> "None"]]
    /\ axThreads = ThreadsIdle
    /\ IdlePart0 /\ IdleScheme /\ IdleBatchExt

NextCtx ==
    \/ AppCtx_create
    \/ AppCtx_drop
    \/ AppCtx_get
    \/ \E g \in HandlerGroups, n \in HandlerNames, f \in HandlerFns :
          AppCtx_add_action_handler(g, n, f)
    \/ \E g \in HandlerGroups, n \in HandlerNames : AppCtx_lookup(g, n)

SpecCtx == InitCtx /\ [][NextCtx]_vars

\* Two threads call create when there is no context; earlier contexts may
\* have been created and dropped.
InitCtxRace ==
    /\ axCurrent = None
    /\ axHeap = <<>>
    /\ axNext \in 0..MaxContexts
    /\ axPc = "race"
    /\ axLast = [op |-> "none", result |-> [kind |-> "None"]]
    /\ axThreads = [t \in Threads |->
                       [pc |-> "test", ptr |-> 0, ret |-> "none"]]
    /\ IdlePart0 /\ IdleScheme /\ IdleBatchExt

NextCtxRace ==
    \/ \E t \in Threads : CreateTest(t)
    \/ \E t \in Threads : CreateAlloc(t)
    \/ \E t \in Threads : CreateStore(t)
    \/ RaceGet

SpecCtxRace == InitCtxRace /\ [][NextCtxRace]_vars

\* batch(model, finder, env, f) is entered with index = 0; bFail tells
\* whether the caller's callback is one that can return Err.
InitBatch ==
    /\ bRows \in {RowsOf(n) : n \in RowCounts}
    /\ bFinder \in Finders
    /\ bFail \in BOOLEAN
    /\ bPc = "find_many"
    /\ bIndex = 0
    /\ bLastFinder = None
    /\ bLastLen = None
    /\ bCalls = 0
    /\ bDelivered = <<>>
    /\ bResult = "none"
    /\ bPage = <<>>
    /\ IdleDb /\ IdleUrl /\ IdleApi /\ IdleExt

NextBatch == BatchFindMany \/ BatchCallback \/ BatchCheck

\* The runtime keeps polling the future of batch until it completes.
SpecBatch == InitBatch /\ [][NextBatch]_vars /\ WF_vars(NextBatch)

\* batch called once or more on one graph, with a callback that leaves the
\* rows alone or with one that deletes every row it is given.
InitBatchRuns ==
    /\ bRows \in {RowsOf(n) : n \in RowCounts}
    /\ bFinder \in Finders
    /\ bFail \in BOOLEAN
    /\ bMutating \in BOOLEAN
    /\ bRun = 1
    /\ bDeleted = {}
    /\ bPc = "find_many"
    /\ bIndex = 0
    /\ bLastFinder = None
    /\ bLastLen = None
    /\ bCalls = 0
    /\ bDelivered = <<>>
    /\ bResult = "none"
    /\ bPage = <<>>
    /\ IdleDb /\ IdleUrl /\ IdleApi /\ IdleFind /\ IdleObj /\ IdleSave
    /\ IdleFirst /\ IdleOpp /\ IdleOutline /\ IdleBuild /\ IdleTypes
    /\ IdleScheme /\ IdleCtx

NextBatchRuns == NextBatch \/ BatchAgain

SpecBatchRuns == InitBatchRuns /\ [][NextBatchRuns]_vars

Returned == dbResult # DbPending

SignedTags == {"I8", "I16", "I32", "I64", "I128"}
UnsignedTags == {"U8", "U16", "U32", "U64", "U128"}
SignedOf(tag) ==
    CASE tag = "U8" -> "I8" [] tag = "U16" -> "I16" [] tag = "U32" -> "I32"
      [] tag = "U64" -> "I64" [] tag = "U128" -> "I128"

\* C3: to_database_type is total: for every FieldType and every SQLDialect
\* the call returns a DatabaseType and never aborts.
C3_Total == Returned => dbResult.kind # "Panic"

\* C4: an Undefined result is returned only for a composite or enum
\* FieldType, and every scalar FieldType gets a concrete column type.
C4_UndefinedOnlyComposite ==
    (Returned /\ dbResult.kind # "Panic" /\ ft.tag # "Undefined") =>
        /\ dbResult = DbUndefined => ft.tag \in CompositeTags
        /\ ft.tag \in ScalarTags => dbResult # DbUndefined

\* C5: on MySQL, String is VarChar(191), DateTime has 3 fractional digits,
\* signed integers are columns with u = FALSE and unsigned integers the
\* same column type with u = TRUE.
C5_MySQLDefaults ==
    (Returned /\ dialect = "MySQL") =>
        /\ ft.tag = "String" => dbResult.kind = "VarChar" /\ dbResult.m = 191
        /\ ft.tag = "DateTime" => dbResult.kind = "DateTime" /\ dbResult.fsp = 3
        /\ ft.tag \in SignedTags =>
              /\ dbResult.kind \in {"TinyInt", "SmallInt", "Int", "BigInt"}
              /\ dbResult.u = FALSE
        /\ ft.tag \in UnsignedTags =>
              /\ dbResult.u = TRUE
              /\ dbResult.kind =
                    default_database_type_mysql(
                        [tag |-> SignedOf(ft.tag), arg |-> ""]).kind

C5_Witness ==
    /\ dialect = "MySQL" /\ ft.tag = "U16"
    /\ dbResult = [kind |-> "SmallInt", m |-> None, u |-> TRUE]

(***************************************************************************)
(* Graph::batch (C1)                                                       *)
(***************************************************************************)

BatchDone == bPc = "done"
ShortPage == IsSome(bLastLen) /\ Unwrap(bLastLen) < batch_size

\* Every find_many call so far carried take = 200 and skip = 200 * k for
\* the k-th call (k from 0), whatever take and skip the caller's finder
\* held, and the caller's where clause.
C1_PageFinders ==
    bCalls > 0 =>
        /\ IsSome(bLastFinder)
        /\ Unwrap(bLastFinder).take = Some(batch_size)
        /\ Unwrap(bLastFinder).skip = Some(batch_size * (bCalls - 1))
        /\ Unwrap(bLastFinder).where = bFinder.where
        /\ bIndex \in {bCalls - 1, bCalls}

\* C1 as stated: the page finders, and batch returns Ok exactly when a page
\* returned fewer than 200 rows.
C1_OkIffShortPage ==
    /\ C1_PageFinders
    /\ BatchDone => (bResult = "Ok" <=> ShortPage)

\* C1 amended: the page finders; batch returns Ok exactly when a page
\* returned fewer than 200 rows and the callback returned Ok for every row
\* of it (an Err of find_many or of the callback is returned at once); over
\* a fixed finite result set batch always terminates.
C1_Batch ==
    /\ [](/\ C1_PageFinders
          /\ BatchDone => (bResult = "Ok" <=> (ShortPage /\ bPage = <<>>))
          /\ BatchDone => bResult \in {"Ok", "Err"})
    /\ <>BatchDone

C1_Witness ==
    /\ BatchDone /\ bResult = "Ok" /\ bCalls = 3
    /\ bFinder.skip = Some(CallerSkip) /\ bFinder.take = Some(CallerTake)
    /\ Unwrap(bLastFinder).skip = Some(2 * batch_size)
    /\ bLastLen = Some(1)

(***************************************************************************)
(* Create and Update on Simple (C2, C7, C8, C9, C10)                       *)
(***************************************************************************)

IsCreate(req) == req.action = "Create"
PayloadOf(req) == Unwrap(req.payload)
Supplies(req, k) == req.action # "None" /\ IsSome(PayloadOf(req)[k])
Omits(req, k) == req.action # "None" /\ PayloadOf(req)[k] = None

\* The stored rows holding value v in field k.
RowsWith(rows, k, v) == {i \in 1..Len(rows) : rows[i][k] = v}

NoSharedUnique ==
    \A i, j \in 1..Len(store) :
        i # j => store[i]["uniqueString"] # store[j]["uniqueString"]

DuplicateCreate ==
    /\ IsCreate(request')
    /\ Supplies(request', "uniqueString")
    /\ RowsWith(store, "uniqueString", PayloadOf(request')["uniqueString"]) # {}

UniqueError ==
    /\ response'.status = 400
    /\ response'.type = "ValidationError"
    /\ response'.errors = {<<"uniqueString", "Unique value duplicated.">>}
    /\ response'.data = None

\* C2 as stated: every Create whose unique value is already stored fails
\* with a 400 ValidationError keyed by uniqueString and changes no row, and
\* no two stored rows share a unique value.
C2_DuplicateRejected ==
    /\ [][DuplicateCreate => (UniqueError /\ store' = store)]_vars
    /\ []NoSharedUnique

\* C2 amended: a Create whose unique value is already stored always fails
\* with a 4xx and changes no row; when its payload is otherwise valid (only
\* writable keys, every required field without default supplied) the error
\* is the ValidationError keyed by uniqueString; no two stored rows share a
\* unique value.
C2_Unique ==
    /\ [][DuplicateCreate =>
            /\ response'.status = 400 /\ response'.data = None
            /\ store' = store
            /\ (/\ ~Supplies(request', "readonly")
                /\ Supplies(request', "requiredString")) => UniqueError]_vars
    /\ []NoSharedUnique

C2_Witness ==
    /\ IsCreate(request)
    /\ response = UniqueDuplicated({"uniqueString"})
    /\ Len(store) = 1
    /\ store[1]["uniqueString"] = PayloadOf(request)["uniqueString"]

\* The fields of Simple declared required() and without default() or
\* database assignment (lines 30-35).
RequiredNoDefault == {"uniqueString", "requiredString"}

OmitsRequired ==
    /\ IsCreate(request')
    /\ \E k \in RequiredNoDefault : Omits(request', k)

RequiredError ==
    /\ response'.status = 400
    /\ response'.type = "ValidationError"
    /\ \A k \in RequiredNoDefault :
          Omits(request', k) => <<k, "Value is required.">> \in response'.errors
    /\ response'.data = None
    /\ store' = store

\* A successful Create omitted only fields that are optional, have a
\* default, are computed or are assigned by the database.
OmittedWereOmissible ==
    (IsCreate(request) /\ response.status = 200) =>
        \A k \in FieldNames :
            (Omits(request, k) /\ Simple[k].availability = "Required") =>
                \/ IsSome(Simple[k].default)
                \/ Simple[k].store = "Calculated"
                \/ Simple[k].assigned_by_database

\* C7 as stated: every Create that omits a required field without default
\* fails with a 400 ValidationError naming that field, returns no data and
\* persists no row.
C7_RequiredOmitted ==
    /\ [][OmitsRequired => RequiredError]_vars
    /\ []OmittedWereOmissible

\* C7 amended: a Create whose keys are all writable and that omits a
\* required field without default fails with a 400 ValidationError naming
\* that field, returns no data and persists no row (with a NoWrite key in
\* the payload the error is KeysUnallowed); a Create succeeds only when
\* every required field it omits has a default, is computed or is assigned
\* by the database.
C7_Required ==
    /\ [][OmitsRequired =>
            /\ response'.status = 400 /\ response'.data = None
            /\ store' = store
            /\ ~Supplies(request', "readonly") => RequiredError]_vars
    /\ []OmittedWereOmissible

C7_Witness ==
    /\ IsCreate(request)
    /\ Supplies(request, "uniqueString") /\ Omits(request, "requiredString")
    /\ response = ValueRequired({"requiredString"})
    /\ store = <<>>

\* The fields of Simple declared with default() (lines 42-50).
WithDefault == {"requiredWithDefault", "readonly", "writeonly"}
DefaultOf(k) ==
    CASE k = "requiredWithDefault" -> DefaultI8
      [] k = "readonly" -> TRUE
      [] k = "writeonly" -> FALSE

Created == IsCreate(request) /\ response.status = 200
CreatedRow == store[Len(store)]
Expected(k) ==
    IF Omits(request, k) THEN DefaultOf(k) ELSE Unwrap(PayloadOf(request)[k])
Returns(k, v) ==
    /\ k \in DOMAIN Unwrap(response.data)
    /\ Unwrap(response.data)[k] = v

\* C8 as stated: a successful Create returns and stores the default of
\* every field with a default when the field is omitted, and the supplied
\* value otherwise.
C8_DefaultReturnedAndStored ==
    Created =>
        \A k \in WithDefault :
            /\ CreatedRow[k] = Some(Expected(k))
            /\ Returns(k, Expected(k))

\* C8 amended: a successful Create stores the default of every field with a
\* default when the field is omitted and the supplied value otherwise, and
\* returns that same value when the field is readable (a writeonly field
\* with a default is stored but not returned).
C8_Default ==
    /\ \A k \in WithDefault : Simple[k].default = Some(DefaultOf(k))
    /\ Created =>
        \A k \in WithDefault :
            /\ CreatedRow[k] = Some(Expected(k))
            /\ k # "writeonly" => Returns(k, Expected(k))
            /\ k = "writeonly" => k \notin DOMAIN Unwrap(response.data)

C8_Witness ==
    /\ Created
    /\ Omits(request, "requiredWithDefault")
    /\ Returns("requiredWithDefault", DefaultI8)
    /\ CreatedRow["requiredWithDefault"] = Some(DefaultI8)

C8_WitnessSupplied ==
    /\ Created
    /\ Supplies(request, "requiredWithDefault")
    /\ Returns("requiredWithDefault", ProvidedI8)

\* C9: readonly(), internal() and calculated() set the write rule NoWrite,
\* and every Create or Update whose payload supplies the readonly field is
\* rejected with a 400 KeysUnallowed, returns no data and persists nothing,
\* whatever else the payload holds.
C9_NoWriteRejected ==
    /\ [](/\ readonly(FieldBuilder_new("f")).write_rule = "NoWrite"
          /\ internal(FieldBuilder_new("f")).write_rule = "NoWrite"
          /\ calculated(FieldBuilder_new("f")).write_rule = "NoWrite"
          /\ Simple["readonly"].write_rule = "NoWrite")
    /\ [][Supplies(request', "readonly") =>
            /\ response'.status = 400
            /\ response'.type = "KeysUnallowed"
            /\ response'.data = None
            /\ store' = store /\ nextId' = nextId]_vars

C9_Witness ==
    /\ request.action = "Update"
    /\ Supplies(request, "readonly") /\ Supplies(request, "requiredString")
    /\ response = KeysUnallowed
    /\ Len(store) = 2

\* C10: the writeonly field has read rule NoRead and is Unqueryable, is an
\* input key whose supplied value is stored, never appears in the data of a
\* response, and is no output key and no field of the DataOutput and
\* Select classes.
C10_WriteonlyHidden ==
    /\ Simple["writeonly"].read_rule = "NoRead"
    /\ Simple["writeonly"].query_ability = "Unqueryable"
    /\ "writeonly" \notin query_keys(Simple)
    /\ "writeonly" \in input_keys(Simple)
    /\ "writeonly" \notin output_keys(Simple)
    /\ "writeonly" \notin DataOutputFields(Simple)
    /\ "writeonly" \notin SelectFields(Simple)
    /\ IsSome(response.data) => "writeonly" \notin DOMAIN Unwrap(response.data)
    /\ (Created /\ Supplies(request, "writeonly")) =>
            CreatedRow["writeonly"] = PayloadOf(request)["writeonly"]
    /\ (response.type = "KeysUnallowed") => Supplies(request, "readonly")

C10_Witness ==
    /\ Created
    /\ PayloadOf(request)["writeonly"] = Some(TRUE)
    /\ CreatedRow["writeonly"] = Some(TRUE)
    /\ DOMAIN Unwrap(response.data) =
          {"id", "uniqueString", "requiredString", "requiredWithDefault",
           "readonly"}

(***************************************************************************)
(* normalized_url (C6)                                                     *)
(***************************************************************************)

Parsed == Url_parse(urlText)
Normalized == urlResult # UrlPending /\ Parsed.kind = "Url"

\* What the claim says the result is.
WithRoot(url) ==
    [url EXCEPT !.username = "root",
                !.password = IF url.password = None THEN Some("") ELSE @]

UrlIdempotent == urlAgain # UrlPending => urlAgain = urlResult

C6_WitnessPassword ==
    /\ urlDialect = "MySQL"
    /\ Parsed.kind = "Url" /\ Parsed.username = ""
    /\ Parsed.password = Some("pw")
    /\ urlResult.kind = "Url"
    /\ urlResult.username = "root" /\ urlResult.password = Some("pw")

(***************************************************************************)
(* FindUnique after Create (C11)                                           *)
(***************************************************************************)

IsFind(req) == req.action = "FindUnique"
FindRows(req) == IF req.model = "Compound" THEN compounds ELSE store
FindHits(req) == Matching(FindRows(req), Unwrap(req.where))

\* The keys of the data a read of a row returns: every field of Compound,
\* and of Simple the fields that are readable and hold a value.
ReadKeys(req) ==
    IF req.model = "Compound" THEN {"id", "one", "two", "three"}
    ELSE {"id", "uniqueString", "requiredString", "requiredWithDefault",
          "readonly"}

ReturnsRow(resp, row, keys) ==
    /\ resp.status = 200
    /\ IsSome(resp.data)
    /\ DOMAIN Unwrap(resp.data) = keys
    /\ \A k \in keys : row[k] = Some(Unwrap(resp.data)[k])

\* A successful Create appends one row holding the values of its payload
\* and a fresh id, and no step changes a stored row.
RowsAsCreated(rows, rowsNext, req) ==
    /\ Len(rowsNext) >= Len(rows)
    /\ \A i \in 1..Len(rows) : rowsNext[i] = rows[i]
    /\ Len(rowsNext) > Len(rows) =>
          /\ Len(rowsNext) = Len(rows) + 1
          /\ req.action = "Create"
          /\ \A k \in DOMAIN Unwrap(req.payload) :
                IsSome(Unwrap(req.payload)[k]) =>
                    rowsNext[Len(rowsNext)][k] = Unwrap(req.payload)[k]
          /\ \A i \in 1..Len(rows) : rows[i]["id"] # rowsNext[Len(rowsNext)]["id"]

\* C11: after a row is created, FindUnique whose where clause names the
\* values of one of the model's unique indices (the primary key id, the
\* unique field uniqueString of Simple, the compound index (one, two) of
\* Compound) returns exactly that row with the values it was created with;
\* a where clause that names the values of no row finds nothing.
C11_FindUnique ==
    /\ [][/\ RowsAsCreated(store, store', request')
          /\ RowsAsCreated(compounds, compounds', request')]_vars
    /\ [][IsFind(request') =>
            /\ Cardinality(FindHits(request')) <= 1
            /\ \A i \in FindHits(request') :
                  ReturnsRow(response', FindRows(request')[i],
                             ReadKeys(request'))
            /\ FindHits(request') = {} => response' = ObjectNotFound]_vars

C11_Witness ==
    /\ IsFind(request) /\ request.model = "Compound"
    /\ request.where = Some([one |-> "1", two |-> "2"])
    /\ Len(compounds) = 2
    /\ compounds[1]["one"] = Some("1") /\ compounds[1]["two"] = Some("two")
    /\ compounds[2]["two"] = Some("2")
    /\ response.status = 200
    /\ Unwrap(response.data)["three"] = "3"
    /\ Some(Unwrap(response.data)["id"]) = compounds[2]["id"]

C11_WitnessPrimary ==
    /\ IsFind(request) /\ request.model = "Simple"
    /\ DOMAIN Unwrap(request.where) = {"id"}
    /\ Len(store) = 2
    /\ Some(Unwrap(request.where)["id"]) = store[2]["id"]
    /\ response.status = 200
    /\ Some(Unwrap(response.data)["uniqueString"]) = store[2]["uniqueString"]

C11_WitnessUnique ==
    /\ IsFind(request) /\ request.model = "Simple"
    /\ request.where = Some([uniqueString |-> "2"])
    /\ Len(store) = 2 /\ store[2]["uniqueString"] = Some("2")
    /\ response.status = 200
    /\ Some(Unwrap(response.data)["id"]) = store[2]["id"]

(***************************************************************************)
(* The Object life cycle and its modified set (C12, C13)                    *)
(***************************************************************************)

ObjState(o) ==
    IF o.is_deleted THEN "Deleted"
    ELSE IF o.is_new THEN "New"
    ELSE IF o.modified = {} THEN "Persisted"
    ELSE "Dirty"

Called(ops) == objOp'.op \in ops /\ objOp'.result.ok
Modifies == Called({"set", "set_json"}) /\ obj'.current_values # obj.current_values

\* C12: save takes a New object to Persisted, a modification takes a
\* Persisted object to Dirty, save takes a Dirty object to Persisted and
\* delete takes a Persisted object to Deleted; no operation leaves Deleted,
\* and on a Deleted object every operation except to_json fails with
\* ObjectIsDeleted and changes nothing.
C12_LifeCycle ==
    /\ [][/\ (ObjState(obj) = "New" /\ Called({"save"})) =>
                ObjState(obj') = "Persisted"
          /\ (ObjState(obj) = "Persisted" /\ Modifies) =>
                ObjState(obj') = "Dirty"
          /\ (ObjState(obj) = "Dirty" /\ Called({"save"})) =>
                ObjState(obj') = "Persisted"
          /\ (ObjState(obj) = "Persisted" /\ Called({"delete"})) =>
                ObjState(obj') = "Deleted"
          /\ ObjState(obj) = "Deleted" =>
                /\ obj' = obj
                /\ objOp'.op # "to_json" => objOp'.result = Err("ObjectIsDeleted")
                /\ objOp'.op = "to_json" => objOp'.result.ok]_vars

C12_Witness ==
    /\ ObjState(obj) = "Deleted"
    /\ obj.previous_values = [a |-> "x", b |-> "y"]
    /\ obj.current_values = [a |-> "x", b |-> "y"]
    /\ objOp = [op |-> "get", result |-> Err("ObjectIsDeleted")]

\* C13: in every state reached by set, set_json and save, modified is the
\* set of fields whose current value differs from the previous one and is a
\* subset of the keys of current_values; right after a successful save
\* modified is empty, previous_values equals current_values and is_new is
\* false.
C13_Modified ==
    /\ [](/\ obj.modified =
                {f \in ObjFields :
                    \/ /\ f \in DOMAIN obj.current_values
                       /\ f \notin DOMAIN obj.previous_values
                    \/ /\ f \in DOMAIN obj.current_values
                       /\ f \in DOMAIN obj.previous_values
                       /\ obj.current_values[f] # obj.previous_values[f]
                    \/ /\ f \notin DOMAIN obj.current_values
                       /\ f \in DOMAIN obj.previous_values}
          /\ obj.modified \subseteq DOMAIN obj.current_values
          /\ obj.is_new => obj.previous_values = NoValues)
    /\ [][(ObjState(obj) # "Deleted" /\ Called({"save"})) =>
            /\ obj'.modified = {}
            /\ obj'.previous_values = obj'.current_values
            /\ obj'.current_values = obj.current_values
            /\ ~obj'.is_new]_vars

C13_Witness ==
    /\ ~obj.is_new /\ ~obj.is_deleted
    /\ obj.previous_values = [a |-> "x", b |-> "x"]
    /\ obj.current_values = [a |-> "x", b |-> "y"]
    /\ obj.modified = {"b"}
    /\ objOp.op = "set"

(***************************************************************************)
(* The order of the effects of one save() (C14)                            *)
(***************************************************************************)

LogIndex(ev, who) ==
    {i \in 1..Len(svLog) : svLog[i] = Event(ev, who)}
Before(is, js) == \A i \in is, j \in js : i < j

\* C14: within one save(), every owner-side directive of an object is
\* realized before the row of that object is persisted, and every
\* referenced-side directive is applied only after that row has been
\* persisted; a save() that returns Ok has persisted every object of the
\* plan and carried out every directive.
C14_SaveOrder ==
    /\ \A d \in svPlan :
          /\ Cardinality(LogIndex("persisted", d.of)) <= 1
          /\ d.side = "owner" =>
                /\ LogIndex("applied", d.name) = {}
                /\ LogIndex("persisted", d.of) # {} =>
                      LogIndex("realized", d.name) # {}
                /\ Before(LogIndex("realized", d.name),
                          LogIndex("persisted", d.of))
                /\ d.kind = "Create" =>
                      Before(LogIndex("persisted", d.target),
                             LogIndex("persisted", d.of))
          /\ d.side = "referenced" =>
                /\ LogIndex("realized", d.name) = {}
                /\ LogIndex("applied", d.name) # {} =>
                      LogIndex("persisted", d.of) # {}
                /\ Before(LogIndex("persisted", d.of),
                          LogIndex("applied", d.name))
                /\ d.kind = "Create" =>
                      Before(LogIndex("persisted", d.of),
                             LogIndex("persisted", d.target))
    /\ svResult = "Ok" =>
          /\ svDone = svPlan
          /\ \A d \in svPlan : d.of \in svPersisted

C14_Witness ==
    /\ svResult = "Ok"
    /\ svPlan = Directives
    /\ svLog[1] = Event("realized", "company")
    /\ svLog[2] = Event("persisted", "A")
    /\ \E i, j, k \in 1..Len(svLog) :
          /\ i < j /\ j < k
          /\ svLog[i] = Event("realized", "author")
          /\ svLog[j] = Event("persisted", "root")
          /\ svLog[k] = Event("applied", "tags")

(***************************************************************************)
(* Graph::find_first (C15)                                                 *)
(***************************************************************************)

FirstReturned ==
    /\ ffResult # FirstPending
    /\ Graph_model(ffModel) # None /\ IsObject(ffFinder)

\* The rows the connector returns for the caller's finder when it asks for
\* one row: the row after the skipped ones, if there is one.
FirstSkip == IF IsSome(ffFinder.skip) THEN Unwrap(ffFinder.skip) ELSE 0

\* C15: find_first on a defined model with an object finder issues exactly
\* one find_many call whose finder is the caller's finder with take set to
\* 1 and where, orderBy, skip and cursor unchanged; it returns the first
\* row of the result, ObjectNotFound when the result is empty, and the
\* connector's error unchanged when the connector fails.
C15_FindFirst ==
    FirstReturned =>
        /\ Len(ffCalls) = 1
        /\ ffCalls[1].take = Some(1)
        /\ \A k \in {"where", "orderBy", "skip", "cursor"} :
              ffCalls[1][k] = ffFinder[k]
        /\ IsSome(ffError) =>
              ffResult = [kind |-> "Err", err |-> Unwrap(ffError)]
        /\ (ffError = None /\ FirstSkip >= Len(ffRows)) =>
              ffResult = [kind |-> "Err", err |-> "ObjectNotFound"]
        /\ (ffError = None /\ FirstSkip < Len(ffRows)) =>
              ffResult = [kind |-> "Ok", row |-> ffRows[FirstSkip + 1]]

C15_Witness ==
    /\ ffFinder = [where |-> Some("w"), orderBy |-> Some("asc"),
                   skip |-> Some(1), cursor |-> None, take |-> Some(0)]
    /\ ffCalls = <<[ffFinder EXCEPT !.take = Some(1)]>>
    /\ Len(ffRows) = 2
    /\ ffResult = [kind |-> "Ok", row |-> 2]

OppStartRelation == orChain[1]
OppReturned == orResult.kind = "Returned"

\* The chain of relations the calls went through: each relation but the
\* last is a through relation, followed by the relation named `foreign` of
\* its through model; the last one is direct.
OppChainResolved ==
    /\ \A i \in 1..(Len(orChain) - 1) :
          /\ IsSome(orChain[i].through)
          /\ Model_relation(orGraph, Unwrap(orChain[i].through),
                            orChain[i].foreign) = Some(orChain[i + 1])
    /\ orChain[Len(orChain)].through = None

\* What the claim promises for a direct relation r.
OppDirectAnswer(r, answer) ==
    /\ (r.model \notin DOMAIN orGraph) => answer = None
    /\ IsSome(answer) =>
          /\ Unwrap(answer)[1] = r.model
          /\ \E i \in 1..Len(orGraph[r.model]) :
                orGraph[r.model][i] = Unwrap(answer)[2]
          /\ Unwrap(answer)[2].fields = r.references
          /\ Unwrap(answer)[2].references = r.fields
    /\ (r.model \in DOMAIN orGraph /\ answer = None) =>
          \A i \in 1..Len(orGraph[r.model]) :
              ~ /\ orGraph[r.model][i].fields = r.references
                /\ orGraph[r.model][i].references = r.fields

\* C16: opposite_relation(r) of a direct relation r to model M' returns
\* (M', r') with r'.fields = r.references and r'.references = r.fields, and
\* None when M' is undefined or has no such relation; of a through relation
\* it returns the opposite of the through model's relation named r.foreign;
\* and the resolution terminates: no call aborts and none recurses without
\* end.
C16_OppositeRelation ==
    /\ orPc \notin {"panic", "diverged"}
    /\ OppReturned =>
          /\ OppChainResolved
          /\ OppDirectAnswer(orChain[Len(orChain)], orResult.value)

\* The part of C16 the code keeps: a call that returns has followed the
\* through relations to a direct one and answers for that one.
C16_WhenReturned ==
    OppReturned =>
        /\ OppChainResolved
        /\ OppDirectAnswer(orChain[Len(orChain)], orResult.value)

C16_WitnessCycle ==
    /\ orPc = "diverged"
    /\ Len(orChain) = 2
    /\ orChain[1].through = Some("B")
    /\ orChain[2].through = Some("A")

C16_WitnessDangling ==
    /\ orPc = "panic"
    /\ Len(orChain) = 1
    /\ orChain[1].through = Some("Gone")

OutlineDone == olPc = "done"
OutlineNames(c) == [i \in 1..Len(c.fields) |-> c.fields[i].name]
\* The input keys of the model, the relation named x left out.
KeysExcept(x) ==
    LET NotX(k) == k # x IN SelectSeq(m_input_keys(olModel), NotX)
ClassesNamed(suffix) ==
    {i \in 1..Len(olClasses) : olClasses[i].name_suffix = suffix}
PascalDistinct ==
    \A i, j \in 1..Len(olModel.relations) :
        to_pascal_case(olModel.relations[i].name)
            = to_pascal_case(olModel.relations[j].name) => i = j

\* C17: for every relation X of a model the outline holds a CreateInput and
\* an UpdateInput class named ...WithoutX... with one field for every input
\* key except relation X and no field named X; the base CreateInput and
\* UpdateInput classes hold one field for every input key.
C17_WithoutX ==
    OutlineDone =>
        \A stem \in {"Create", "Update"} :
            /\ \E i \in ClassesNamed(<<stem, "Input">>) :
                  OutlineNames(olClasses[i]) = m_input_keys(olModel)
            /\ PascalDistinct =>
                  \A i \in ClassesNamed(<<stem, "Input">>) :
                      OutlineNames(olClasses[i]) = m_input_keys(olModel)
            /\ \A r \in 1..Len(olModel.relations) :
                  LET x == olModel.relations[r].name
                      named == ClassesNamed(
                          <<stem, "Without", to_pascal_case(x), "Input">>)
                  IN /\ \E i \in named :
                           /\ OutlineNames(olClasses[i]) = KeysExcept(x)
                           /\ \A f \in 1..Len(olClasses[i].fields) :
                                 olClasses[i].fields[f].name # x
                     /\ PascalDistinct =>
                           \A i \in named :
                               OutlineNames(olClasses[i]) = KeysExcept(x)

C17_Witness ==
    /\ OutlineDone
    /\ Len(olModel.relations) = 2
    /\ olModel.relations[1].name = "author"
    /\ olModel.relations[2].name = "posts"
    /\ \E i \in ClassesNamed(<<"Update", "Without", "Posts", "Input">>) :
          OutlineNames(olClasses[i]) = <<"name", "fullName", "author">>

OutlineStems ==
    {"Create", "CreateNestedMany", "CreateNestedOne", "ConnectOrCreate",
     "Update", "UpdateNestedMany", "UpdateNestedOne"}
OutlineSingles ==
    {<<>>, <<"Select">>, <<"WhereInput">>, <<"WhereUniqueInput">>,
     <<"OrderByInput">>}

\* C18: for a model with n relations the outline emits one class each of
\* DataOutput, Select, WhereInput, WhereUniqueInput and OrderByInput, an
\* Include class iff n > 0, and for the base variant and for each relation
\* one class of each of the seven create and update names: 5 + (1 if
\* n > 0) + 7 * (n + 1) classes.
C18_ClassCount ==
    OutlineDone =>
        LET n == Len(olModel.relations)
        IN /\ Len(olClasses) = 5 + (IF n > 0 THEN 1 ELSE 0) + 7 * (n + 1)
           /\ \A suffix \in OutlineSingles :
                 Cardinality(ClassesNamed(suffix)) = 1
           /\ Cardinality(ClassesNamed(<<"Include">>))
                 = IF n > 0 THEN 1 ELSE 0
           /\ \A stem \in OutlineStems :
                 /\ Cardinality(ClassesNamed(<<stem, "Input">>)) = 1
                 /\ \A r \in 1..n :
                       ClassesNamed(<<stem, "Without",
                           to_pascal_case(olModel.relations[r].name),
                           "Input">>) # {}
                 /\ Cardinality({i \in 1..Len(olClasses) :
                        /\ olClasses[i].name_suffix # <<>>
                        /\ olClasses[i].name_suffix[1] = stem}) = n + 1

C18_Witness ==
    /\ OutlineDone
    /\ Len(olModel.relations) = 2
    /\ Len(olClasses) = 27
    /\ ClassesNamed(<<"Include">>) # {}

GraphBuilt == gbPc = "built"
\* Two declarations of the build closure give the same name to two models
\* or to two enums.
Redefined ==
    \E i, j \in 1..Len(gbLog) :
        i < j /\ gbLog[i].kind = gbLog[j].kind /\ gbLog[i].name = gbLog[j].name
ListAndMapAgree ==
    /\ DOMAIN gbGraph.models_map
          = {gbGraph.models_vec[i].name : i \in 1..Len(gbGraph.models_vec)}
    /\ \A i \in 1..Len(gbGraph.models_vec) :
          gbGraph.models_map[gbGraph.models_vec[i].name]
              = gbGraph.models_vec[i]
NothingReplaced ==
    \A i \in 1..Len(gbLog) :
        gbLog[i].kind = "enum" => gbGraph.enums[gbLog[i].name] = gbLog[i].body

\* C19: declaring two models, or two enums, with the same name is reported
\* as a redefinition error when the graph is built; no graph is produced
\* in which a definition has replaced another or in which the model list
\* and the name-to-model map disagree.
C19_Redefinition ==
    GraphBuilt =>
        /\ Redefined => gbGraph.kind = "RedefinitionError"
        /\ gbGraph.kind = "Graph" => ListAndMapAgree /\ NothingReplaced

C19_WitnessModels ==
    /\ GraphBuilt
    /\ gbGraph.kind = "Graph"
    /\ Len(gbGraph.models_vec) = 2
    /\ gbGraph.models_vec[1] = [name |-> "Simple", body |-> "first"]
    /\ gbGraph.models_vec[2] = [name |-> "Simple", body |-> "second"]
    /\ gbGraph.models_map["Simple"] = gbGraph.models_vec[2]

C19_WitnessEnums ==
    /\ GraphBuilt
    /\ gbGraph.kind = "Graph"
    /\ Len(gbLog) = 2
    /\ gbLog[1] = [kind |-> "enum", name |-> "Sex", body |-> <<"MALE">>]
    /\ gbGraph.enums["Sex"] = <<"MALE", "FEMALE">>

TypesInstalled == tyPc = "done"
ScalarOf(name) ==
    CASE name \in {"Int", "Int32"} -> "I32"
      [] name = "Int64" -> "I64"
      [] name = "Float32" -> "F32"
      [] name \in {"Float", "Float64"} -> "F64"
      [] OTHER -> name
AbsolutePath == Append(tyEnums.ns_path, tyEnums.name)
SingleBuiltin == Len(tyName) = 1 /\ tyName[1] \in BuiltinNames
SingleObjectId == tyName = <<"ObjectId">> /\ tyMongo

\* C20 as stated: a single-segment name among the eleven built-in names
\* yields the corresponding scalar type, and every other type path yields
\* Enum(absolute path of the referenced enum).
C20_ScalarOrEnum ==
    TypesInstalled =>
        /\ SingleBuiltin => tyType = Installed(ScalarOf(tyName[1]))
        /\ ~SingleBuiltin => tyType = InstalledEnum(AbsolutePath)

\* C20, amended: as stated, except that in a build with the feature
\* data-source-mongodb the single-segment name ObjectId yields
\* FieldType::ObjectId.
C20_InstallTypes ==
    TypesInstalled =>
        /\ SingleBuiltin => tyType = Installed(ScalarOf(tyName[1]))
        /\ SingleObjectId => tyType = Installed("ObjectId")
        /\ (~SingleBuiltin /\ ~SingleObjectId) =>
              tyType = InstalledEnum(AbsolutePath)

C20_Witness ==
    /\ TypesInstalled
    /\ tyName = <<"auth", "String">>
    /\ tyType = InstalledEnum(<<"auth", "String">>)

C20_WitnessInt ==
    /\ TypesInstalled
    /\ tyName = <<"Int">>
    /\ tyType = Installed("I32")

C20_WitnessObjectId ==
    /\ TypesInstalled
    /\ tyName = <<"ObjectId">>
    /\ tyMongo
    /\ tyType = Installed("ObjectId")

SchemeRemoved == rsPc = "done"
\* The scheme prefixes in the order of the claim.
SchemePrefixes ==
    <<StrFile \o StrColon \o StrSlashes, StrSqlite \o StrColon \o StrSlashes,
      StrFile \o StrColon, StrSqlite \o StrColon,
      StrMysql \o StrColon \o StrSlashes,
      StrPostgres \o StrColon \o StrSlashes,
      StrMssql \o StrColon \o StrSlashes>>
HasPrefix(i) == starts_with(rsUrl, SchemePrefixes[i])

\* C21: remove_scheme strips exactly one leading scheme prefix, the first
\* in the order file://, sqlite://, file:, sqlite:, mysql://, postgres://,
\* mssql:// that the string starts with, and returns any other string
\* unchanged; is_memory_url(remove_scheme(u)) holds iff u is ":memory:",
\* optionally preceded by one of those prefixes.
C21_RemoveScheme ==
    SchemeRemoved =>
        /\ \A i \in 1..Len(SchemePrefixes) :
              (HasPrefix(i) /\ \A j \in 1..(i - 1) : ~HasPrefix(j)) =>
                  rsUrl = SchemePrefixes[i] \o rsResult
        /\ (\A i \in 1..Len(SchemePrefixes) : ~HasPrefix(i)) =>
              rsResult = rsUrl
        /\ is_memory_url(rsResult) <=>
              \/ rsUrl = StrMemory
              \/ \E i \in 1..Len(SchemePrefixes) :
                    rsUrl = SchemePrefixes[i] \o StrMemory

C21_Witness ==
    /\ SchemeRemoved
    /\ rsUrl = StrFile \o StrColon \o StrSlashes \o StrMemory
    /\ rsResult = StrMemory

C21_WitnessBare ==
    /\ SchemeRemoved
    /\ rsUrl = StrSqlite \o StrColon \o StrMemory
    /\ is_memory_url(rsResult)

BatchOk == bPc = "done" /\ bResult = "Ok"
RowCount == Len(bRows)

C23_MutatingCallback ==
    (bMutating /\ bRun = 1 /\ BatchOk) => bDelivered = bRows

C23_WitnessSkipped ==
    /\ bMutating /\ bRun = 1 /\ BatchOk
    /\ RowCount = batch_size + 1
    /\ Len(bDelivered) = batch_size
    /\ bCalls = 2
    /\ LiveRows = <<batch_size + 1>>

CtxExists == DOMAIN axHeap # {}
CtxSequential == axPc \in {"run", "panic"}
LastOp(op) == axLast.op = op

\* C24 (states): in a sequential run at most one context exists, and it is
\* the one CURRENT refers to; get returns a Fatal error exactly when no
\* context exists.
C24_OneContext ==
    CtxSequential =>
        /\ Cardinality(DOMAIN axHeap) <= 1
        /\ IsSome(axCurrent) <=> CtxExists
        /\ IsSome(axCurrent) => DOMAIN axHeap = {Unwrap(axCurrent)}
        /\ LastOp("get") =>
              /\ axLast.result.kind = "Fatal" <=> ~CtxExists
              /\ axLast.result.kind = "Ok" =>
                    axLast.result.ctx = Unwrap(axCurrent)

\* C24 (steps): create returns true exactly when no context exists and then
\* installs a fresh context with every optional component unset and every
\* collection empty; it returns false when a context exists and leaves
\* that context and its fields unchanged.
C24_CreateStep ==
    (axPc = "run" /\ axLast'.op = "create") =>
        /\ axLast'.result.kind = "True" <=> ~CtxExists
        /\ axLast'.result.kind = "False" <=> CtxExists
        /\ axLast'.result.kind = "True" =>
              /\ IsSome(axCurrent')
              /\ Unwrap(axCurrent') \notin DOMAIN axHeap
              /\ LET ctx == axHeap'[Unwrap(axCurrent')]
                 IN /\ ctx.parser = None /\ ctx.connector = None
                    /\ ctx.graph = None
                    /\ ctx.clients = <<>> /\ ctx.action_handlers = <<>>
                    /\ ctx.action_map = <<>>
        /\ axLast'.result.kind = "False" => UNCHANGED <<axCurrent, axHeap>>

\* C24: over any sequential sequence of create, drop and get calls at most
\* one context exists at a time; create returns true exactly when none
\* exists and installs a fresh one, returns false and changes nothing when
\* one exists; get returns a Fatal error exactly when none exists.
C24_Singleton == [](C24_OneContext) /\ [][C24_CreateStep]_vars

C24_Witness ==
    /\ axPc = "run"
    /\ axNext = 2
    /\ axCurrent = Some(2)
    /\ axLast = [op |-> "create", result |-> [kind |-> "False"]]
    /\ Len(axHeap[2].action_handlers) = 1

C24_WitnessFatal ==
    /\ axPc = "run"
    /\ axNext = 1
    /\ axCurrent = None
    /\ axLast = [op |-> "get", result |-> [kind |-> "Fatal"]]

RaceOver == axPc = "race" /\ \A t \in Threads : axThreads[t].pc = "done"
Winners == {t \in Threads : axThreads[t].ret = "true"}

\* C25: under every interleaving of two concurrent create calls starting
\* with no context, exactly one call returns true, exactly one AppCtx is
\* allocated, and the context get returns afterwards is the one created by
\* the call that returned true.
C25_ConcurrentCreate ==
    RaceOver =>
        /\ Cardinality(Winners) = 1
        /\ Cardinality(DOMAIN axHeap) = 1
        /\ \A t \in Winners :
              AppCtx_get_result(axCurrent)
                  = [kind |-> "Ok", ctx |-> axThreads[t].ptr]

C25_WitnessBothTrue ==
    /\ RaceOver
    /\ Winners = Threads
    /\ Cardinality(DOMAIN axHeap) = 2

CurrentCtx == axHeap[Unwrap(axCurrent)]
Registrations(g, n) ==
    {i \in 1..Len(CurrentCtx.action_handlers) :
        /\ CurrentCtx.action_handlers[i].group = g
        /\ CurrentCtx.action_handlers[i].name = n}
Latest(S) == CHOOSE i \in S : \A j \in S : j <= i

\* C26: after any sequence of add_action_handler calls,
\* has_action_handler_for(g, n) holds iff some add_action_handler(g, n, _)
\* was called, get_action_handler(g, n) returns the handler of the most
\* recent such call, and every handler in the action map is an element of
\* the action_handlers list, which keeps all registrations in call order.
C26_Handlers ==
    (CtxSequential /\ IsSome(axCurrent)) =>
        /\ \A g \in HandlerGroups, n \in HandlerNames :
              /\ has_action_handler_for(CurrentCtx, g, n)
                    <=> Registrations(g, n) # {}
              /\ Registrations(g, n) # {} =>
                    get_action_handler(CurrentCtx, g, n)
                        = [kind |-> "Ok",
                           def |-> CurrentCtx.action_handlers[
                                       Latest(Registrations(g, n))]]
        /\ \A g \in DOMAIN CurrentCtx.action_map :
              \A n \in DOMAIN CurrentCtx.action_map[g] :
                  \E i \in 1..Len(CurrentCtx.action_handlers) :
                      CurrentCtx.action_handlers[i]
                          = CurrentCtx.action_map[g][n]
        /\ \A i \in 1..Len(CurrentCtx.action_handlers) :
              CurrentCtx.action_handlers[i].id = i

C26_Witness ==
    /\ axPc = "run"
    /\ IsSome(axCurrent)
    /\ Len(CurrentCtx.action_handlers) = 3
    /\ Cardinality(Registrations("g1", "n1")) = 2
    /\ CurrentCtx.action_handlers[1].f = "f"
    /\ axLast.op = "lookup" /\ axLast.group = "g1" /\ axLast.name = "n1"
    /\ axLast.has
    /\ axLast.result.def = HandlerDef("g1", "n1", "h", 3)

WhereUniqueClass ==
    olClasses[CHOOSE i \in ClassesNamed(<<"WhereUniqueInput">>) : TRUE]
Occurrences(names, x) == Cardinality({i \in 1..Len(names) : names[i] = x})

\* C27: the WhereUniqueInput class of a model lists each field that belongs
\* to at least one unique index exactly once, and no other field, whatever
\* the number of unique indices and the overlap of their key lists.
C27_WhereUniqueOnce ==
    OutlineDone =>
        LET names == OutlineNames(WhereUniqueClass)
        IN /\ \A i \in 1..Len(olModel.indices) :
                 olModel.indices[i].unique =>
                     \A k \in 1..Len(olModel.indices[i].keys) :
                         Occurrences(names, olModel.indices[i].keys[k]) = 1
           /\ \A n \in 1..Len(names) :
                 \E i \in 1..Len(olModel.indices) :
                     /\ olModel.indices[i].unique
                     /\ \E k \in 1..Len(olModel.indices[i].keys) :
                           olModel.indices[i].keys[k] = names[n]

C27_WitnessTwice ==
    /\ OutlineDone
    /\ olModel.indices = <<OutlineIndex(TRUE, <<"id">>),
                           OutlineIndex(TRUE, <<"name", "id">>)>>
    /\ OutlineNames(WhereUniqueClass) = <<"id", "name", "id">>

\* Every relation of the graph targets a model the graph defines.
OppTargetsDefined ==
    \A m \in RelModels : \A i \in 1..Len(orGraph[m]) :
        orGraph[m][i].model \in DOMAIN orGraph

\* opposite_relation was called with a direct relation and found one.
OppDirectFound ==
    /\ OppReturned
    /\ Len(orChain) = 1
    /\ IsSome(orResult.value)

\* C28: opposite_relation is an involution on direct relations: when r is
\* a direct relation of model M and opposite_relation(r) = (M', r'), then
\* r' targets M and opposite_relation(r') = (M, r), also when M' declares
\* several relations with the same fields and references.
C28_Involution ==
    (OppDirectFound /\ OppTargetsDefined) =>
        LET found == Unwrap(orResult.value)[2]
        IN /\ found.model = orStart[1]
           /\ opposite_direct(orGraph, found)
                  = Some(<<orStart[1], OppStartRelation>>)

CreateReturned == objOp.op = "create_object"
InitialApplied == Object_set_json(Object_new, objOp.initial)

\* C29: create_object(model, initial) returns InvalidOperation when the
\* model is not defined; when applying the initial payload fails it
\* returns that failure; and whenever it returns Ok the object holds the
\* initial payload.
C29_CreateObject ==
    CreateReturned =>
        /\ Graph_model(objOp.model) = None =>
               objOp.result = Err("InvalidOperation")
        /\ (Graph_model(objOp.model) # None /\ ~InitialApplied.result.ok) =>
               objOp.result = InitialApplied.result
        /\ objOp.result.ok =>
               /\ InitialApplied.result.ok
               /\ obj = InitialApplied.obj

\* The kind that corresponds to the suffix of a class name.
KindOfSuffix(suffix) ==
    CASE suffix = <<>> -> "DataOutput"
      [] suffix = <<"Select">> -> "SelectInput"
      [] suffix = <<"Include">> -> "IncludeInput"
      [] Len(suffix) = 1 -> suffix[1]
      [] suffix[1] = "Create" -> "CreateInput"
      [] suffix[1] = "CreateNestedMany" -> "CreateNestedManyInput"
      [] suffix[1] = "CreateNestedOne" -> "CreateNestedOneInput"
      [] suffix[1] = "ConnectOrCreate" -> "ConnectOrCreateInput"
      [] suffix[1] = "Update" -> "UpdateInput"
      [] suffix[1] = "UpdateNestedMany" -> "UpdateNestedManyInput"
      [] suffix[1] = "UpdateNestedOne" -> "UpdateNestedOneInput"

\* C30: every class of the outline carries the kind of its name suffix;
\* the UpdateNestedMany and UpdateNestedOne classes carry kinds of their
\* own, which no CreateNestedMany or CreateNestedOne class carries.
C30_ClassKinds ==
    OutlineDone =>
        \A i \in 1..Len(olClasses) :
            /\ olClasses[i].kind = KindOfSuffix(olClasses[i].name_suffix)
            /\ \A j \in 1..Len(olClasses) :
                  (/\ Len(olClasses[i].name_suffix) > 1
                   /\ Len(olClasses[j].name_suffix) > 1
                   /\ olClasses[i].name_suffix[1]
                          \in {"UpdateNestedMany", "UpdateNestedOne"}
                   /\ olClasses[j].name_suffix[1]
                          \in {"CreateNestedMany", "CreateNestedOne"})
                  => olClasses[i].kind # olClasses[j].kind

====
